---- MODULE Spec2Model ----
(***************************************************************************)
(* Model of the Delos Python SDK (sdk/python/src/delos): the per-service   *)
(* gRPC clients built on BaseClient (lazy channel, cached stub, close,     *)
(* scoped use), the Get-style lookups that swallow exceptions, and the     *)
(* DelosClient facade with its six lazily constructed sub-clients.         *)
(*                                                                         *)
(* A program either constructs one service client directly                 *)
(* (root = "service") or constructs the facade (root = "facade") and       *)
(* reaches the sub-clients through its properties.                         *)
(*                                                                         *)
(*   Spec      one service client, every operation with what its caller    *)
(*             observes                                                    *)
(*   SpecLife  the connection lifecycle of a service client and of the     *)
(*             facade, scoped use included                                 *)
(*   SpecRace  threads racing through one client's stub and channel        *)
(***************************************************************************)
EXTENDS Integers, Sequences, FiniteSets, TLC

\* ------------------------------------------------------------------ bounds
\* Connection handles (grpc channels) created in one run.
MaxHandles == 2
\* Sub-client instances the facade constructs in one run.
MaxInstances == 2
\* Distinct resource ids a response can carry.
MaxId == 1
\* Most generators of complete_stream that exist unfinished.
MaxGens == 1
\* Statements a program runs on one facade.
MaxSteps == 5
\* Calls of health_check in one run.
MaxHealthCalls == 1
\* Fragments of one remote completion stream.
MaxFrags == 1
\* Threads racing on one service client (SpecRace).
NThreads == 2
\* The largest wire enum number a response can carry.
MaxWire == 10
\* The instants a datetime can hold.
MaxTime == 1
\* Fragments of a remote stream consumed one next() at a time (SpecStream).
MaxStream == 2
\* Calls of complete_stream in one run (SpecStream).
MaxStreamCalls == 2
\* The largest limit and offset a list call passes, and the largest backing
\* collection (SpecCall).
MaxLimit == 2
MaxOffset == 2
MaxTotal == 3
\* Pieces of a prompt template, and versions of a prompt (SpecRender).
MaxPieces == 2
MaxVersion == 2
\* Largest example counters of an evaluation run (SpecModels).
MaxExamples == 4
\* Largest page length, and largest offset and total_count of a page
\* (SpecModels).
MaxPage == 2
MaxCount == 3
\* Latest instant of a span or trace, in half seconds, and most spans of a
\* trace (SpecModels).
MaxTicks == 3
MaxSpans == 3

\* ------------------------------------------------------------------ values
\* Python's None for a handle, a stub or a client slot.
Null == 0

Services == {"observe", "runtime", "prompts", "datasets", "eval", "deploy"}

\* The fixed order of the facade's slots.
SlotOrder == <<"observe", "runtime", "prompts", "datasets", "eval", "deploy">>

ServiceEndpoint(p) == [host |-> "localhost", port |-> p, use_tls |-> FALSE]

\* DelosConfig(): the default per-service endpoints and the request timeout.
DelosConfig ==
    [observe  |-> ServiceEndpoint(9000),
     runtime  |-> ServiceEndpoint(9001),
     prompt   |-> ServiceEndpoint(9002),
     datasets |-> ServiceEndpoint(9003),
     eval     |-> ServiceEndpoint(9004),
     deploy   |-> ServiceEndpoint(9005),
     timeout  |-> 30]

\* A copy-paste slip in the prompts property: the runtime endpoint is used.
ConfigEndpointSwapped(svc) ==
    CASE svc = "observe"  -> DelosConfig.observe
      [] svc = "runtime"  -> DelosConfig.runtime
      [] svc = "prompts"  -> DelosConfig.runtime
      [] svc = "datasets" -> DelosConfig.datasets
      [] svc = "eval"     -> DelosConfig.eval
      [] svc = "deploy"   -> DelosConfig.deploy

\* The config field each facade property passes to its client's constructor.
ConfigEndpoint(svc) ==
    CASE svc = "observe"  -> DelosConfig.observe
      [] svc = "runtime"  -> DelosConfig.runtime
      [] svc = "prompts"  -> DelosConfig.prompt
      [] svc = "datasets" -> DelosConfig.datasets
      [] svc = "eval"     -> DelosConfig.eval
      [] svc = "deploy"   -> DelosConfig.deploy

\* The public remote operations of each service client.
Operations(svc) ==
    CASE svc = "prompts"  -> {"create", "get", "update", "delete", "list",
                              "get_version", "list_versions"}
      [] svc = "runtime"  -> {"complete", "complete_stream", "list_models",
                              "list_providers"}
      [] svc = "datasets" -> {"create", "get", "update", "delete", "list",
                              "add_examples", "get_examples", "remove_examples"}
      [] svc = "eval"     -> {"create_run", "get_run", "list_runs", "cancel_run",
                              "get_results", "compare_runs", "list_evaluators"}
      [] svc = "deploy"   -> {"create", "get", "list", "approve", "rollback",
                              "cancel", "get_status", "create_quality_gate",
                              "list_quality_gates"}
      [] svc = "observe"  -> {"ingest_spans", "get_trace", "query_traces"}

\* The operations whose remote call sits in  try: ... except Exception: return None.
GetStyle(svc) ==
    CASE svc = "prompts"  -> {"get", "get_version"}
      [] svc = "datasets" -> {"get"}
      [] svc = "eval"     -> {"get_run"}
      [] svc = "deploy"   -> {"get"}
      [] svc = "observe"  -> {"get_trace"}
      [] svc = "runtime"  -> {}

\* The one generator operation: its body runs when the iterator is consumed.
StreamOps(svc) == IF svc = "runtime" THEN {"complete_stream"} ELSE {}

\* What the remote call can do: answer, or fail with a gRPC status.
RemoteOutcomes ==
    {"ok", "not_found", "permission_denied", "invalid_argument", "internal",
     "unavailable", "deadline_exceeded"}

\* The domain type the operation's converter builds from the response.
ReturnType(svc, op) ==
    CASE svc = "prompts" /\ op \in {"create", "get", "update"} -> "Prompt"
      [] svc = "prompts" /\ op = "list"                      -> "PromptPage"
      [] svc = "prompts" /\ op = "get_version"               -> "PromptVersion"
      [] svc = "prompts" /\ op = "list_versions"             -> "PromptVersionList"
      [] svc = "runtime" /\ op = "complete"                  -> "CompletionResponse"
      [] svc = "runtime" /\ op = "list_models"               -> "ModelList"
      [] svc = "runtime" /\ op = "list_providers"            -> "ProviderList"
      [] svc = "datasets" /\ op \in {"create", "get", "update"} -> "Dataset"
      [] svc = "datasets" /\ op = "list"                     -> "DatasetPage"
      [] svc = "datasets" /\ op \in {"add_examples", "get_examples"} -> "ExamplePage"
      [] svc = "datasets" /\ op = "remove_examples"          -> "int"
      [] svc = "eval" /\ op \in {"create_run", "get_run", "cancel_run"} -> "EvalRun"
      [] svc = "eval" /\ op = "list_runs"                    -> "EvalRunPage"
      [] svc = "eval" /\ op = "get_results"                  -> "EvalResultPage"
      [] svc = "eval" /\ op = "compare_runs"                 -> "RunComparison"
      [] svc = "eval" /\ op = "list_evaluators"              -> "EvaluatorList"
      [] svc = "deploy" /\ op \in {"create", "get", "approve", "cancel"} -> "Deployment"
      [] svc = "deploy" /\ op = "list"                       -> "DeploymentPage"
      [] svc = "deploy" /\ op = "rollback"                   -> "DeploymentPair"
      [] svc = "deploy" /\ op = "get_status"                 -> "DeploymentStatus"
      [] svc = "deploy" /\ op = "create_quality_gate"        -> "QualityGate"
      [] svc = "deploy" /\ op = "list_quality_gates"         -> "QualityGateList"
      [] svc = "observe" /\ op = "ingest_spans"              -> "int"
      [] svc = "observe" /\ op = "get_trace"                 -> "Trace"
      [] svc = "observe" /\ op = "query_traces"              -> "TraceList"
      [] op = "delete"                                       -> "bool"
      [] OTHER                                               -> "Iterator"

NoValue   == [type |-> "-", id |-> Null]
NoneValue == [type |-> "None", id |-> Null]

\* An optional field: None is the empty sequence, a present value v is <<v>>.
None == <<>>

Some(v) == <<v>>

\* Content fragments of a remote stream: empty or not.
Fragments == {"", "x"}

RECURSIVE SeqsUpTo(_, _)
SeqsUpTo(S, n) ==
    IF n = 0 THEN {<<>>}
    ELSE LET shorter == SeqsUpTo(S, n - 1)
         IN  shorter \cup {Append(s, x) : s \in {t \in shorter : Len(t) = n - 1}, x \in S}

\* ------------------------------------------------------------------ state
VARIABLES
    root,        \* "service": one service client; "facade": a DelosClient
    genMissing,  \* the services whose generated modules failed to import
    sc,          \* the directly constructed service client (inst = Null: none)
    slots,       \* the facade's six slots: a client record, inst = Null for None
    nInst,       \* client instances constructed so far
    handles,     \* every channel created so far: open?, close() calls, owner
    blk,         \* the scoped-use block around the root object
    lastOp,      \* the operation that ran last and what its caller observed
    gens,        \* the generators complete_stream returned that have not finished
    dropped,     \* the sub-clients close() removed from the facade's slots
    steps,       \* the statements the caller has run on the facade
    tpc,         \* SpecRace: each thread's position in its call
    tloc,        \* SpecRace: each thread's local values
    inp,         \* the arguments and the environment of a call taken on its own
    out          \* what that call returned or raised

vars == <<root, genMissing, sc, slots, nInst, handles, blk, lastOp, gens, dropped,
          steps,
          tpc, tloc, inp, out>>

Threads == 1..NThreads

\* A thread's locals: the channel it holds, the stub it got, the channel its
\* remote call went through, the exception that ended its call.
NoLocals == [h |-> Null, stub |-> Null, used |-> Null, raised |-> "None"]

NoClient == [inst |-> Null, svc |-> "-", endpoint |-> ServiceEndpoint(Null),
             timeout |-> Null, channel |-> Null, stub |-> Null]

\* BaseClient.__init__ and the subclass __init__: no channel, no stub.
NewClient(i, svc, endpoint, timeout) ==
    [inst |-> i, svc |-> svc, endpoint |-> endpoint, timeout |-> timeout,
     channel |-> Null, stub |-> Null]

Idle(target, name) ==
    [target |-> target, name |-> name, outcome |-> "-", resp |-> Null,
     raised |-> "None", value |-> NoValue, delivered |-> <<>>, calls |-> 0, via |-> Null,
     released |-> {}, again |-> FALSE]

\* ------------------------------------------------------------------ BaseClient
NewHandle(c, scoped) ==
    [open |-> TRUE, closes |-> 0, owner |-> c.inst,
     secure |-> c.endpoint.use_tls, scoped |-> scoped]

\* BaseClient.channel: create the channel when there is none, then return it.
ChannelGet(c, hs, scoped) ==
    IF c.channel = Null
    THEN [c   |-> [c EXCEPT !.channel = Len(hs) + 1],
          hs  |-> Append(hs, NewHandle(c, scoped)),
          ret |-> Len(hs) + 1]
    ELSE [c |-> c, hs |-> hs, ret |-> c.channel]

\* A close() that forgets to reset the field: the next close() closes again.
ClientCloseKeepsField(c, hs) ==
    IF c.channel # Null
    THEN [c  |-> c,
          hs |-> [hs EXCEPT ![c.channel] =
                     [@ EXCEPT !.open = FALSE, !.closes = @ + 1]],
          released |-> {c.channel}]
    ELSE [c |-> c, hs |-> hs, released |-> {}]

\* BaseClient.close: close the channel if there is one and forget it.
\* The cached stub is left as it is.
ClientClose(c, hs) ==
    IF c.channel # Null
    THEN [c  |-> [c EXCEPT !.channel = Null],
          hs |-> [hs EXCEPT ![c.channel] =
                     [@ EXCEPT !.open = FALSE, !.closes = @ + 1]],
          released |-> {c.channel}]
    ELSE [c |-> c, hs |-> hs, released |-> {}]

\* A stub accessor that evaluates self.channel before it looks for the
\* generated module.
StubGetChannelFirst(c, hs, scoped) ==
    IF c.stub # Null
    THEN [c |-> c, hs |-> hs, ret |-> c.stub, exc |-> "None"]
    ELSE LET ch == ChannelGet(c, hs, scoped)
         IN  IF c.svc \in genMissing
             THEN [c |-> ch.c, hs |-> ch.hs, ret |-> Null, exc |-> "ImportError"]
             ELSE [c   |-> [ch.c EXCEPT !.stub = ch.ret],
                   hs  |-> ch.hs,
                   ret |-> ch.ret,
                   exc |-> "None"]

\* A stub accessor without the cache test: every access builds a new stub
\* over self.channel.
StubGetNoCache(c, hs, scoped) ==
    IF c.svc \in genMissing
    THEN [c |-> c, hs |-> hs, ret |-> Null, exc |-> "ImportError"]
    ELSE LET ch == ChannelGet(c, hs, scoped)
         IN  [c   |-> [ch.c EXCEPT !.stub = ch.ret],
              hs  |-> ch.hs,
              ret |-> ch.ret,
              exc |-> "None"]

\* <Service>Client.stub: the cached stub, else ImportError when the generated
\* module is missing, else a new stub over self.channel, cached.
StubGet(c, hs, scoped) ==
    IF c.stub # Null
    THEN [c |-> c, hs |-> hs, ret |-> c.stub, exc |-> "None"]
    ELSE IF c.svc \in genMissing
    THEN [c |-> c, hs |-> hs, ret |-> Null, exc |-> "ImportError"]
    ELSE LET ch == ChannelGet(c, hs, scoped)
         IN  [c   |-> [ch.c EXCEPT !.stub = ch.ret],
              hs  |-> ch.hs,
              ret |-> ch.ret,
              exc |-> "None"]

\* stub.<Rpc>(request, timeout=...): one remote invocation over the channel the
\* stub was built on; grpc refuses a closed channel before sending anything.
Invoke(h, hs, outcome) ==
    IF ~hs[h].open
    THEN [exc |-> "ValueError", calls |-> 0]
    ELSE [exc |-> IF outcome = "ok" THEN "None" ELSE "RpcError", calls |-> 1]

\* The domain object a converter (_to_prompt, _to_run, ...) builds.
Decode(svc, op, resp) == [type |-> ReturnType(svc, op), id |-> resp]

\* The content fragments a consumer of complete_stream receives.
RECURSIVE NonEmpty(_)
NonEmpty(fs) ==
    IF fs = <<>> THEN <<>>
    ELSE IF Head(fs) # "" THEN <<Head(fs)>> \o NonEmpty(Tail(fs))
    ELSE NonEmpty(Tail(fs))

\* No try/except around the remote call.
SwallowsNothing(svc, op, exc) == FALSE

\* except Exception: return None  -- whatever the exception is.
Swallows(svc, op, exc) == op \in GetStyle(svc)

\* A loop body that yields every fragment, empty or not.
RECURSIVE GenAdvanceYieldsAll(_, _, _)
GenAdvanceYieldsAll(frags, ending, pos) ==
    IF pos < Len(frags)
    THEN [pos |-> pos + 1, yield |-> Some(frags[pos + 1]), exc |-> "None"]
    ELSE [pos |-> pos, yield |-> None,
          exc |-> IF ending = "ok" THEN "StopIteration" ELSE "RpcError"]

\* for response in <remote stream>: if response.content: yield response.content
\* from position pos of the remote stream on: the next non-empty fragment,
\* or the end of the stream (StopIteration), or the stream's failure.
RECURSIVE GenAdvance(_, _, _)
GenAdvance(frags, ending, pos) ==
    IF pos < Len(frags)
    THEN IF frags[pos + 1] # ""
         THEN [pos |-> pos + 1, yield |-> Some(frags[pos + 1]), exc |-> "None"]
         ELSE GenAdvance(frags, ending, pos + 1)
    ELSE [pos |-> pos, yield |-> None,
          exc |-> IF ending = "ok" THEN "StopIteration" ELSE "RpcError"]

\* One next(it) on the generator g of the client c, over the channels hs.
\* A generator that has not started runs the body of complete_stream from
\* its first line: it builds the request, reads the stub and starts the
\* remote stream, then enters the loop. A suspended generator resumes in the
\* loop after its yield; a stream whose channel was closed meanwhile has
\* been cancelled and raises RpcError. The loop reads what the remote
\* stream sends while this next() runs (e: the fragments and, after them,
\* how the stream ends): at the first non-empty fragment the generator
\* yields it and is suspended again, the rest of the stream unread; with
\* none it finishes, with StopIteration (the normal end of a for loop) or
\* with the stream's RpcError. g is the generator afterwards.
GenNext(g, c, hs, e, scoped) ==
    LET base == [c |-> c, hs |-> hs, raised |-> "None", value |-> NoValue,
                 delivered |-> <<>>, calls |-> 0, via |-> Null,
                 g |-> [g EXCEPT !.state = "finished"]]
        Loop(b, h) ==
            LET a == GenAdvance(e.frags, e.outcome, 0)
            IN  IF a.yield # None
                THEN [b EXCEPT !.delivered = <<a.yield[1]>>,
                               !.g = [g EXCEPT !.state = "suspended", !.via = h]]
                ELSE IF a.exc = "StopIteration"
                THEN [b EXCEPT !.value = [type |-> "StopIteration", id |-> Null]]
                ELSE [b EXCEPT !.raised = a.exc]
    IN
    IF g.state = "suspended"
    THEN IF ~hs[g.via].open
         THEN [base EXCEPT !.raised = "RpcError"]
         ELSE Loop(base, g.via)
    ELSE
    IF c.svc \in genMissing
    THEN \* runtime_pb2 is None: building the request dereferences it
         [base EXCEPT !.raised = "AttributeError"]
    ELSE
    LET s   == StubGet(c, hs, scoped)
        inv == Invoke(s.ret, s.hs, "ok")
        got == [base EXCEPT !.c = s.c, !.hs = s.hs, !.calls = inv.calls,
                            !.via = s.ret]
    IN
    IF inv.exc # "None"
    THEN [got EXCEPT !.raised = inv.exc]
    ELSE Loop(got, s.ret)

\* One public operation of a service client, start to finish: build the
\* request from the generated message module, get the stub, invoke, convert.
\* complete_stream is a generator function: the call returns the generator
\* and runs none of its body.
ClientOp(c, hs, op, outcome, resp, frags, scoped) ==
    LET base == [c |-> c, hs |-> hs, raised |-> "None", value |-> NoValue,
                 delivered |-> <<>>, calls |-> 0, via |-> Null]
    IN
    IF op \in StreamOps(c.svc)
    THEN [base EXCEPT !.value = Decode(c.svc, op, Null)]
    ELSE
    IF c.svc \in genMissing
    THEN \* <svc>_pb2 is None: building the request dereferences it
         [base EXCEPT !.raised = "AttributeError"]
    ELSE
    LET s   == StubGet(c, hs, scoped)
        inv == Invoke(s.ret, s.hs, outcome)
        got == [base EXCEPT !.c = s.c, !.hs = s.hs, !.calls = inv.calls,
                            !.via = s.ret]
    IN
    IF inv.exc # "None"
    THEN IF Swallows(c.svc, op, inv.exc)
         THEN [got EXCEPT !.value = NoneValue]
         ELSE [got EXCEPT !.raised = inv.exc]
    ELSE [got EXCEPT !.value = Decode(c.svc, op, resp)]

\* The generator a call of complete_stream on the client c returns: it has
\* run nothing and holds its client (self), the root's or a sub-client of
\* the facade. Suspended at its yield it holds the remote stream, which
\* runs over the channel via.
NewGenerator(c) ==
    [inst |-> c.inst, svc |-> c.svc, state |-> "created", via |-> Null]

\* The generators after one operation of the client c.
AfterCall(gs, c, op) ==
    IF op \in StreamOps(c.svc) THEN Append(gs, NewGenerator(c)) ELSE gs

\* A sequence without its i-th element.
RemoveAt(seq, i) ==
    [j \in 1..(Len(seq) - 1) |-> IF j < i THEN seq[j] ELSE seq[j + 1]]

\* The generators after a next() left the i-th of them as g: a suspended
\* generator stays, a finished one is gone.
AfterNext(gs, i, g) ==
    IF g.state = "suspended" THEN [gs EXCEPT ![i] = g] ELSE RemoveAt(gs, i)

\* The inputs of one operation that make a difference to it: what the remote
\* call does and, when it answers, the resource id (or the fragments) it sends.
FragSeqs == SeqsUpTo(Fragments, MaxFrags)

\* What the remote stream does while one next() of a generator runs: the
\* fragments it sends and how it ends after them.
StreamInputs ==
    {[outcome |-> o, resp |-> Null, frags |-> f] :
        o \in RemoteOutcomes, f \in FragSeqs}

OpInputs(svc, op) ==
    IF op \in StreamOps(svc)
    THEN StreamInputs
    ELSE {[outcome |-> "ok", resp |-> i, frags |-> <<>>] : i \in 1..MaxId}
         \cup {[outcome |-> o, resp |-> Null, frags |-> <<>>] :
                  o \in RemoteOutcomes \ {"ok"}}

\* The inputs that make a difference to what a lifecycle keeps of an
\* operation: the remote call answers, or it fails.
LifeInputs(S) == {e \in S : e.outcome \in {"ok", "unavailable"}}

\* What a lifecycle keeps of a remote operation depends on the operation
\* only through its try/except: one Get-style lookup and one operation that
\* is none (each service has both, the runtime service no lookup).
LifeOps(svc) ==
    {CHOOSE o \in K : TRUE :
        K \in {GetStyle(svc), Operations(svc) \ (GetStyle(svc) \cup StreamOps(svc))}
               \ {{}}}

OpRecord(target, op, e, r) ==
    [target |-> target, name |-> op, outcome |-> e.outcome, resp |-> e.resp,
     raised |-> r.raised, value |-> r.value, delivered |-> r.delivered, calls |-> r.calls,
     via |-> r.via, released |-> {}, again |-> FALSE]

\* What the lifecycle keeps of an operation: that a call ran and whether it
\* raised.
Kept(r) == [c |-> r.c, hs |-> r.hs, raised |-> r.raised]

CallRecord(target, r) == [Idle(target, "call") EXCEPT !.raised = r.raised]

\* Where an exception raised inside the block goes: handled in the block, or
\* out of it (then __exit__ runs next).
AfterOp(raised, caught) ==
    IF blk = "in" /\ raised # "None" /\ ~caught THEN "raising" ELSE blk

Catches(raised) == IF blk = "in" /\ raised # "None" THEN BOOLEAN ELSE {TRUE}

CanAct == blk # "raising"

\* ------------------------------------------------------------------ Init
InitObjects(r) ==
    /\ root = r
    /\ genMissing \in {{}, Services}
    /\ IF r = "service"
       THEN /\ \E svc \in Services :
                  sc = NewClient(1, svc, ConfigEndpoint(svc), DelosConfig.timeout)
            /\ nInst = 1
       ELSE /\ sc = NoClient
            /\ nInst = 0
    /\ slots = [s \in Services |-> NoClient]
    /\ handles = <<>>
    /\ blk = "out"
    /\ lastOp = Idle(r, "__init__")
    /\ gens = <<>>
    /\ dropped = {}
    /\ steps = 0
    /\ tpc = [t \in Threads |-> "idle"]
    /\ tloc = [t \in Threads |-> NoLocals]

\* No call has been taken on its own.
NoCall == [name |-> "-"]

InitRoot(r) ==
    /\ InitObjects(r)
    /\ inp = NoCall
    /\ out = NoCall

Init == InitRoot("service")

InitLife == \E r \in {"service", "facade"} : InitRoot(r)

\* ------------------------------------------------------------------ a service client
\* client.<op>(...) with the inputs e; rec is what is kept of it.
DirectOp(op, e, caught, full) ==
    LET r == ClientOp(sc, handles, op, e.outcome, e.resp, e.frags, blk = "in")
    IN  /\ Len(r.hs) <= MaxHandles
        /\ sc' = r.c
        /\ handles' = r.hs
        /\ gens' = AfterCall(gens, sc, op)
        /\ Len(gens') <= MaxGens
        /\ lastOp' = IF full THEN OpRecord("service", op, e, r)
                             ELSE CallRecord("service", r)
        /\ blk' = AfterOp(r.raised, caught)

\* next(it) for the i-th generator of the client, each step of a for loop
\* or of list(it): the body runs on the client as it is now, up to its next
\* yield or to its end; rec is what is kept of it.
DirectIter(i, e, caught, full) ==
    LET r == GenNext(gens[i], sc, handles, e, blk = "in")
    IN  /\ Len(r.hs) <= MaxHandles
        /\ sc' = r.c
        /\ handles' = r.hs
        /\ gens' = AfterNext(gens, i, r.g)
        /\ lastOp' = IF full THEN OpRecord("service", "iterate", e, r)
                             ELSE [Idle("service", "iterate") EXCEPT
                                      !.raised = r.raised]
        /\ blk' = AfterOp(r.raised, caught)

\* client.<op>(...)
DirectCall ==
    /\ root = "service" /\ CanAct
    /\ \E op \in Operations(sc.svc) : \E e \in OpInputs(sc.svc, op) :
          DirectOp(op, e, TRUE, TRUE)
    /\ UNCHANGED <<steps, dropped, inp, out, root, genMissing, slots, nInst, tpc, tloc>>

\* next(it), it a generator an earlier client.complete_stream(...) returned
DirectIterate ==
    /\ root = "service" /\ CanAct
    /\ \E i \in 1..Len(gens) : \E e \in StreamInputs :
          DirectIter(i, e, TRUE, TRUE)
    /\ UNCHANGED <<steps, dropped, inp, out, root, genMissing, slots, nInst, tpc, tloc>>

\* client.<op>(...), possibly inside a scoped-use block
LifeCall ==
    /\ root = "service" /\ CanAct
    /\ \E op \in Operations(sc.svc) : \E e \in OpInputs(sc.svc, op) :
       \E caught \in BOOLEAN :
          DirectOp(op, e, caught, FALSE)
    /\ UNCHANGED <<steps, dropped, inp, out, root, genMissing, slots, nInst, tpc, tloc>>

\* next(it), possibly inside a scoped-use block
LifeIterate ==
    /\ root = "service" /\ CanAct
    /\ \E i \in 1..Len(gens) : \E e \in StreamInputs :
       \E caught \in BOOLEAN :
          DirectIter(i, e, caught, FALSE)
    /\ UNCHANGED <<steps, dropped, inp, out, root, genMissing, slots, nInst, tpc, tloc>>

\* client.channel
DirectChannel ==
    /\ root = "service" /\ CanAct
    /\ LET r == ChannelGet(sc, handles, blk = "in")
       IN  /\ Len(r.hs) <= MaxHandles
           /\ sc' = r.c
           /\ handles' = r.hs
           /\ lastOp' = [Idle("service", "channel") EXCEPT
                            !.value = [type |-> "Channel", id |-> r.ret]]
    /\ UNCHANGED <<steps, dropped, gens, inp, out, root, genMissing, slots, nInst, blk, tpc, tloc>>

\* client.stub
DirectStub ==
    /\ root = "service" /\ CanAct
    /\ LET r == StubGet(sc, handles, blk = "in")
       IN  /\ Len(r.hs) <= MaxHandles
           /\ sc' = r.c
           /\ handles' = r.hs
           /\ lastOp' = [Idle("service", "stub") EXCEPT
                            !.raised = r.exc,
                            !.value = IF r.exc = "None"
                                      THEN [type |-> "Stub", id |-> r.ret]
                                      ELSE NoValue]
           /\ \E caught \in BOOLEAN : blk' = AfterOp(r.exc, caught)
    /\ UNCHANGED <<steps, dropped, gens, inp, out, root, genMissing, slots, nInst, tpc, tloc>>

\* client.close()
DirectClose ==
    /\ root = "service" /\ CanAct
    /\ LET r == ClientClose(sc, handles)
       IN  /\ sc' = r.c
           /\ handles' = r.hs
           /\ lastOp' = [Idle("service", "close") EXCEPT
                            !.released = r.released,
                            !.again = (lastOp.name \in {"close", "__exit__"})]
    /\ UNCHANGED <<steps, dropped, gens, inp, out, root, genMissing, slots, nInst, blk, tpc, tloc>>

\* with client: -- BaseClient.__enter__ returns self
DirectEnter ==
    /\ root = "service" /\ blk = "out"
    /\ blk' = "in"
    /\ lastOp' = Idle("service", "__enter__")
    /\ UNCHANGED <<steps, dropped, gens, inp, out, root, genMissing, sc, slots, nInst, handles, tpc, tloc>>

\* leaving the block, normally or with an exception: BaseClient.__exit__
DirectExit ==
    /\ root = "service" /\ blk \in {"in", "raising"}
    /\ LET r == ClientClose(sc, handles)
       IN  /\ sc' = r.c
           /\ handles' = r.hs
           /\ lastOp' = [Idle("service", "__exit__") EXCEPT
                            !.released = r.released,
                            !.outcome = blk,
                            !.again = (lastOp.name = "close")]
    /\ blk' = "out"
    /\ UNCHANGED <<steps, dropped, gens, inp, out, root, genMissing, slots, nInst, tpc, tloc>>

\* ------------------------------------------------------------------ DelosClient
\* One more statement of the caller's program on the facade.
Statement ==
    /\ steps < MaxSteps
    /\ steps' = steps + 1

\* A facade property: construct the sub-client on first access, return it.
PropertyGet(sl, n, svc) ==
    IF sl[svc].inst = Null
    THEN [sl |-> [sl EXCEPT ![svc] =
                     NewClient(n + 1, svc, ConfigEndpoint(svc), DelosConfig.timeout)],
          n  |-> n + 1]
    ELSE [sl |-> sl, n |-> n]

\* DelosClient.close from position i of the slot order on: close each
\* constructed sub-client and reset its slot.
RECURSIVE CloseSlots(_, _, _, _)
CloseSlots(sl, hs, rel, i) ==
    IF i > Len(SlotOrder) THEN [sl |-> sl, hs |-> hs, released |-> rel]
    ELSE LET svc == SlotOrder[i]
         IN  IF sl[svc].inst # Null
             THEN LET r == ClientClose(sl[svc], hs)
                  IN  CloseSlots([sl EXCEPT ![svc] = NoClient], r.hs,
                                 rel \cup r.released, i + 1)
             ELSE CloseSlots(sl, hs, rel, i + 1)

\* client.<property>
Property ==
    /\ Statement
    /\ root = "facade" /\ CanAct
    /\ \E svc \in Services :
       LET p == PropertyGet(slots, nInst, svc)
       IN  /\ p.n <= MaxInstances
           /\ slots' = p.sl
           /\ nInst' = p.n
           /\ lastOp' = Idle("facade", "property")
    /\ UNCHANGED <<dropped, gens, inp, out, root, genMissing, sc, handles, blk, tpc, tloc>>

\* The sub-clients an expression of the caller names: client.<property>,
\* evaluated now (inst = Null), or a reference the caller took from the
\* property before a close() dropped that client from its slot.
SubClientRefs ==
    {[svc |-> s, inst |-> Null] : s \in Services}
    \cup {[svc |-> d.svc, inst |-> d.inst] : d \in dropped}

\* The client with the instance number inst: in its slot, or dropped.
ClientOf(inst, svc) ==
    IF slots[svc].inst = inst THEN slots[svc]
    ELSE CHOOSE d \in dropped : d.inst = inst

\* What the expression p evaluates to: the client c, and the slots and the
\* instance count after the evaluation (the property constructs the client
\* on first access).
Deref(p) ==
    IF p.inst = Null
    THEN LET g == PropertyGet(slots, nInst, p.svc)
         IN  [c |-> g.sl[p.svc], sl |-> g.sl, n |-> g.n]
    ELSE [c |-> ClientOf(p.inst, p.svc), sl |-> slots, n |-> nInst]

\* Whose member the caller used.
SubTarget(p) == IF p.inst = Null THEN "sub-client" ELSE "dropped"

\* The slots and the dropped clients after a step that evaluated p to q and
\* left the client as c.
SubUpdate(p, q, c) ==
    /\ q.n <= MaxInstances
    /\ nInst' = q.n
    /\ slots' = IF p.inst = Null THEN [q.sl EXCEPT ![p.svc] = c] ELSE slots
    /\ dropped' = IF p.inst = Null THEN dropped
                  ELSE (dropped \ {q.c}) \cup {c}

\* The sub-clients close() removed from the slots sl, leaving sl2: closed,
\* they live on in every reference taken from the property and in every
\* generator they returned.
DroppedBy(sl, sl2, hs) ==
    {ClientClose(sl[s], hs).c :
        s \in {t \in Services : sl[t].inst # Null /\ sl2[t].inst = Null}}

\* p.<op>(...), p = client.<property> or a reference kept across close()
FacadeCall ==
    /\ Statement
    /\ root = "facade" /\ CanAct
    /\ \E p \in SubClientRefs :
       LET q == Deref(p)
       IN  \/ \E r \in {Kept(ClientOp(q.c, handles, op[1], op[2].outcome,
                                       op[2].resp, op[2].frags, blk = "in")) :
                             op \in UNION {{<<o, e>> : e \in LifeInputs(OpInputs(p.svc, o))} :
                                       o \in LifeOps(p.svc)}} :
                /\ Len(r.hs) <= MaxHandles
                /\ SubUpdate(p, q, r.c)
                /\ handles' = r.hs
                /\ gens' = gens
                /\ lastOp' = CallRecord("facade", r)
                /\ \E caught \in Catches(r.raised) :
                      blk' = AfterOp(r.raised, caught)
           \/ \E op \in StreamOps(p.svc) :
                LET r == ClientOp(q.c, handles, op, "ok", Null, <<>>, blk = "in")
                IN  /\ SubUpdate(p, q, r.c)
                    /\ handles' = r.hs
                    /\ gens' = AfterCall(gens, q.c, op)
                    /\ Len(gens') <= MaxGens
                    /\ lastOp' = CallRecord("facade", r)
                    /\ blk' = AfterOp(r.raised, TRUE)
    /\ UNCHANGED <<inp, out, root, genMissing, sc, tpc, tloc>>

\* next(it), it a generator an earlier p.complete_stream(...) returned: its
\* body runs on the sub-client that made it, whether the facade still holds
\* that sub-client or close() has dropped it
FacadeIterate ==
    /\ Statement
    /\ root = "facade" /\ CanAct
    /\ \E i \in 1..Len(gens) : \E e \in LifeInputs(StreamInputs) :
       LET g == gens[i]
           c == ClientOf(g.inst, g.svc)
           r == GenNext(g, c, handles, e, blk = "in")
       IN  /\ Len(r.hs) <= MaxHandles
           /\ slots' = IF slots[g.svc].inst = g.inst
                        THEN [slots EXCEPT ![g.svc] = r.c] ELSE slots
           /\ dropped' = IF slots[g.svc].inst = g.inst THEN dropped
                          ELSE (dropped \ {c}) \cup {r.c}
           /\ handles' = r.hs
           /\ gens' = AfterNext(gens, i, r.g)
           /\ lastOp' = [Idle("facade", "iterate") EXCEPT !.raised = r.raised]
           /\ \E caught \in Catches(r.raised) : blk' = AfterOp(r.raised, caught)
    /\ UNCHANGED <<inp, out, root, genMissing, sc, nInst, tpc, tloc>>

\* p.channel, p a sub-client
SubChannel ==
    /\ Statement
    /\ root = "facade" /\ CanAct
    /\ \E p \in SubClientRefs :
       LET q == Deref(p)
           r == ChannelGet(q.c, handles, blk = "in")
       IN  /\ Len(r.hs) <= MaxHandles
           /\ SubUpdate(p, q, r.c)
           /\ handles' = r.hs
           /\ lastOp' = [Idle(SubTarget(p), "channel") EXCEPT
                            !.value = [type |-> "Channel", id |-> r.ret]]
    /\ UNCHANGED <<gens, inp, out, root, genMissing, sc, blk, tpc, tloc>>

\* p.stub, p a sub-client
SubStub ==
    /\ Statement
    /\ root = "facade" /\ CanAct
    /\ \E p \in SubClientRefs :
       LET q == Deref(p)
           r == StubGet(q.c, handles, blk = "in")
       IN  /\ Len(r.hs) <= MaxHandles
           /\ SubUpdate(p, q, r.c)
           /\ handles' = r.hs
           /\ lastOp' = [Idle(SubTarget(p), "stub") EXCEPT
                            !.raised = r.exc,
                            !.value = IF r.exc = "None"
                                      THEN [type |-> "Stub", id |-> r.ret]
                                      ELSE NoValue]
           /\ \E caught \in Catches(r.exc) : blk' = AfterOp(r.exc, caught)
    /\ UNCHANGED <<gens, inp, out, root, genMissing, sc, tpc, tloc>>

\* p.close(), p a sub-client, or the end of  with p: ...  (BaseClient.__exit__
\* calls close(); __enter__ returned p and changed nothing). A block was
\* entered on a client that existed, and its __exit__ also runs while an
\* exception is on its way out of a block around the facade.
SubClose ==
    /\ Statement
    /\ root = "facade"
    /\ \E p \in SubClientRefs :
       LET q == Deref(p)
           r == ClientClose(q.c, handles)
       IN  /\ CanAct \/ q.n = nInst
           /\ SubUpdate(p, q, r.c)
           /\ handles' = r.hs
           /\ lastOp' = [Idle(SubTarget(p), "close") EXCEPT
                            !.released = r.released]
    /\ UNCHANGED <<gens, inp, out, root, genMissing, sc, blk, tpc, tloc>>

\* client.close()
FacadeClose ==
    /\ Statement
    /\ root = "facade" /\ CanAct
    /\ LET r == CloseSlots(slots, handles, {}, 1)
       IN  /\ slots' = r.sl
           /\ handles' = r.hs
           /\ dropped' = dropped \cup DroppedBy(slots, r.sl, handles)
           /\ lastOp' = [Idle("facade", "close") EXCEPT
                            !.released = r.released,
                            !.again = (lastOp.target = "facade"
                                       /\ lastOp.name \in {"close", "__exit__"})]
    /\ UNCHANGED <<gens, inp, out, root, genMissing, sc, nInst, blk, tpc, tloc>>

\* with DelosClient() as client: -- __enter__ returns self
FacadeEnter ==
    /\ Statement
    /\ root = "facade" /\ blk = "out"
    /\ blk' = "in"
    /\ lastOp' = Idle("facade", "__enter__")
    /\ UNCHANGED <<dropped, gens, inp, out, root, genMissing, sc, slots, nInst, handles, tpc, tloc>>

\* leaving the block, normally or with an exception: DelosClient.__exit__
FacadeExit ==
    /\ Statement
    /\ root = "facade" /\ blk \in {"in", "raising"}
    /\ LET r == CloseSlots(slots, handles, {}, 1)
       IN  /\ slots' = r.sl
           /\ handles' = r.hs
           /\ dropped' = dropped \cup DroppedBy(slots, r.sl, handles)
           /\ lastOp' = [Idle("facade", "__exit__") EXCEPT
                            !.released = r.released,
                            !.outcome = blk,
                            !.again = (lastOp.target = "facade"
                                       /\ lastOp.name = "close")]
    /\ blk' = "out"
    /\ UNCHANGED <<gens, inp, out, root, genMissing, sc, nInst, tpc, tloc>>

\* ------------------------------------------------------------------ health_check
\* The (name, endpoint) pairs health_check iterates over, in order.
HealthServices ==
    << <<"observe",  DelosConfig.observe>>,  <<"runtime", DelosConfig.runtime>>,
       <<"prompt",   DelosConfig.prompt>>,   <<"datasets", DelosConfig.datasets>>,
       <<"eval",     DelosConfig.eval>>,     <<"deploy",  DelosConfig.deploy>> >>

HealthNames == {HealthServices[i][1] : i \in 1..Len(HealthServices)}

\* What can happen to the probe of one endpoint: the channel becomes ready
\* within the timeout, the wait times out, creating the channel raises, the
\* wait raises something else, or the channel becomes ready and its close()
\* raises.
ProbeOutcomes == {"ready", "timeout", "create_error", "probe_error", "close_error"}

\* How the endpoints answer the probes of a call: as in the call before, if
\* there was one; else in every possible way when health_check is taken on
\* its own, and all ready in the lifecycle of the facade, where a probe
\* creates a channel, waits and closes it.
HealthAnswers ==
    IF out.name = "health_check" THEN {out.probe}
    ELSE IF inp.name = "health_check" THEN [HealthNames -> ProbeOutcomes]
    ELSE [HealthNames -> {"ready"}]

\* channel = grpc.insecure_channel(endpoint.address), over the channels hs:
\* a channel no client owns, or the exception that leaves the outer try.
ProbeCreate(o, hs, scoped) ==
    IF o = "create_error"
    THEN [set |-> FALSE, value |-> FALSE, exc |-> "Exception", hs |-> hs,
          channel |-> Null]
    ELSE [set |-> FALSE, value |-> FALSE, exc |-> "None",
          hs |-> Append(hs, [open |-> TRUE, closes |-> 0, owner |-> Null,
                             secure |-> FALSE, scoped |-> scoped]),
          channel |-> Len(hs) + 1]

\* The rest of the body of the outer try, from the moment the wait on the
\* channel ends: the entry the inner try writes (if any), the exception that
\* leaves the body and the channels afterwards. The finally closes the
\* channel; a close() that raises leaves it open.
ProbeEndpoint(o, hs, channel) ==
    LET inner ==
            IF o \in {"ready", "close_error"}
            THEN [set |-> TRUE, value |-> TRUE, exc |-> "None", hs |-> hs,
                  channel |-> Null]
            ELSE IF o = "timeout"
            THEN [set |-> TRUE, value |-> FALSE, exc |-> "None", hs |-> hs,
                  channel |-> Null]
            ELSE [set |-> FALSE, value |-> FALSE, exc |-> "Exception", hs |-> hs,
                  channel |-> Null]
    IN  \* finally: channel.close()
        IF o = "close_error" THEN [inner EXCEPT !.exc = "Exception"]
        ELSE [inner EXCEPT !.hs[channel] =
                   [@ EXCEPT !.open = FALSE, !.closes = @ + 1]]

\* No outer handler: whatever leaves the body leaves health_check.
AbsorbNothing(r) == r

\* except Exception: results[name] = False
Absorb(r) ==
    IF r.exc # "None" THEN [r EXCEPT !.set = TRUE, !.value = FALSE, !.exc = "None"]
    ELSE r

\* The loop of health_check from the top of its body for endpoint call.i,
\* over the channels hs, up to the next wait on a channel it created: an
\* endpoint whose channel cannot be created gets its entry and the loop goes
\* on; after the last endpoint the call returns results.
RECURSIVE HealthLoop(_, _, _)
HealthLoop(call, hs, scoped) ==
    IF call.i > Len(HealthServices)
    THEN [call |-> [call EXCEPT !.pc = "returned"], hs |-> hs]
    ELSE LET name  == HealthServices[call.i][1]
             r     == Absorb(ProbeCreate(call.probe[name], hs, scoped))
             value == IF r.set THEN (name :> r.value) @@ call.value ELSE call.value
         IN  IF r.exc # "None"
             THEN [call |-> [call EXCEPT !.pc = "returned", !.raised = r.exc,
                                         !.value = value],
                   hs |-> r.hs]
             ELSE IF r.channel # Null
             THEN [call |-> [call EXCEPT !.pc = "wait", !.channel = r.channel],
                   hs |-> r.hs]
             ELSE HealthLoop([call EXCEPT !.i = @ + 1, !.value = value], r.hs, scoped)

\* client.health_check() is called, by a thread of its own, and runs up to
\* its first wait, grpc.channel_ready_future(channel).result(timeout=2).
\* The other statements on the facade run while the call waits.
HealthCheck ==
    /\ root = "facade"
    /\ IF out.name = "health_check"
       THEN out.pc = "returned" /\ out.calls < MaxHealthCalls
       ELSE 0 < MaxHealthCalls
    /\ Statement
    /\ \E probe \in HealthAnswers :
          LET r == HealthLoop([name |-> "health_check", pc |-> "create", i |-> 1,
                               channel |-> Null, value |-> <<>>, raised |-> "None",
                               probe |-> probe,
                               calls |-> IF out.name = "health_check"
                                         THEN out.calls + 1 ELSE 1],
                              handles, blk = "in")
          IN  /\ out' = r.call
              /\ handles' = r.hs
    /\ lastOp' = Idle("facade", "health_check")
    /\ UNCHANGED <<dropped, gens, inp, root, genMissing, sc, slots, nInst, blk,
                   tpc, tloc>>

\* The wait of health_check ends: it writes the result, closes the channel
\* and runs on to its next wait or to its return.
HealthWait ==
    /\ out.name = "health_check" /\ out.pc = "wait"
    /\ LET name  == HealthServices[out.i][1]
           p     == Absorb(ProbeEndpoint(out.probe[name], handles, out.channel))
           value == IF p.set THEN (name :> p.value) @@ out.value ELSE out.value
           r     == IF p.exc # "None"
                    THEN [call |-> [out EXCEPT !.pc = "returned", !.raised = p.exc,
                                               !.value = value, !.channel = Null],
                          hs |-> p.hs]
                    ELSE HealthLoop([out EXCEPT !.i = @ + 1, !.value = value,
                                                !.channel = Null],
                                    p.hs, blk = "in")
       IN  /\ out' = r.call
           /\ handles' = r.hs
    /\ lastOp' = Idle("facade", "health_check")
    /\ UNCHANGED <<steps, dropped, gens, inp, root, genMissing, sc, slots, nInst, blk,
                   tpc, tloc>>

\* A facade on which health_check is called and nothing else, whose
\* endpoints answer the probes in every possible way.
InitHealth ==
    /\ InitObjects("facade")
    /\ genMissing = {}
    /\ inp = [name |-> "health_check"]
    /\ out = NoCall

NextHealth ==
    \/ HealthCheck
    \/ HealthWait

SpecHealth == InitHealth /\ [][NextHealth]_vars

\* ------------------------------------------------------------------ enum mappers
\* The generated message modules are not part of the sources: the enum
\* constants the mappers name are numbered in declaration order from 0, as
\* the wire schema numbers them.
datasets_pb2 ==
    [EXAMPLE_SOURCE_UNSPECIFIED |-> 0,
     EXAMPLE_SOURCE_MANUAL |-> 1,
     EXAMPLE_SOURCE_GENERATED |-> 2,
     EXAMPLE_SOURCE_PRODUCTION |-> 3,
     EXAMPLE_SOURCE_IMPORTED |-> 4]
eval_pb2 ==
    [EVAL_RUN_STATUS_UNSPECIFIED |-> 0,
     EVAL_RUN_STATUS_PENDING |-> 1,
     EVAL_RUN_STATUS_RUNNING |-> 2,
     EVAL_RUN_STATUS_COMPLETED |-> 3,
     EVAL_RUN_STATUS_FAILED |-> 4,
     EVAL_RUN_STATUS_CANCELLED |-> 5]
deploy_pb2 ==
    [DEPLOYMENT_TYPE_UNSPECIFIED |-> 0,
     DEPLOYMENT_TYPE_IMMEDIATE |-> 1,
     DEPLOYMENT_TYPE_GRADUAL |-> 2,
     DEPLOYMENT_TYPE_CANARY |-> 3,
     DEPLOYMENT_TYPE_BLUE_GREEN |-> 4,
     DEPLOYMENT_STATUS_UNSPECIFIED |-> 0,
     DEPLOYMENT_STATUS_PENDING_APPROVAL |-> 1,
     DEPLOYMENT_STATUS_PENDING_GATES |-> 2,
     DEPLOYMENT_STATUS_GATES_FAILED |-> 3,
     DEPLOYMENT_STATUS_IN_PROGRESS |-> 4,
     DEPLOYMENT_STATUS_COMPLETED |-> 5,
     DEPLOYMENT_STATUS_ROLLED_BACK |-> 6,
     DEPLOYMENT_STATUS_CANCELLED |-> 7,
     DEPLOYMENT_STATUS_FAILED |-> 8]
observe_pb2 ==
    [SPAN_KIND_UNSPECIFIED |-> 0,
     SPAN_KIND_INTERNAL |-> 1,
     SPAN_KIND_SERVER |-> 2,
     SPAN_KIND_CLIENT |-> 3,
     SPAN_KIND_PRODUCER |-> 4,
     SPAN_KIND_CONSUMER |-> 5,
     SPAN_STATUS_UNSET |-> 0,
     SPAN_STATUS_OK |-> 1,
     SPAN_STATUS_ERROR |-> 2]
\* The declared values of the domain enums (str-valued Enum classes).
ExampleSource == {"unspecified", "manual", "generated", "production", "imported"}
EvalRunStatus == {"unspecified", "pending", "running", "completed", "failed", "cancelled"}
DeploymentType == {"unspecified", "immediate", "gradual", "canary", "blue_green"}
DeploymentStatus == {"unspecified", "pending_approval", "pending_gates", "gates_failed", "in_progress", "completed", "rolled_back", "cancelled", "failed"}
SpanKind == {"unspecified", "internal", "server", "client", "producer", "consumer"}
SpanStatus == {"unset", "ok", "error"}

\* A dict literal: the pairs in order, a later pair replacing an earlier one
\* with the same key.
Dict(pairs) ==
    LET keys == {pairs[i][1] : i \in 1..Len(pairs)}
        last(k) == CHOOSE i \in 1..Len(pairs) :
                      /\ pairs[i][1] = k
                      /\ \A j \in 1..Len(pairs) : pairs[j][1] = k => j <= i
    IN  [k \in keys |-> pairs[last(k)][2]]

\* mapping.get(key, default)
Get(mapping, key, default) ==
    IF key \in DOMAIN mapping THEN mapping[key] ELSE default

\* ExampleSource: the tables of _source_to_pb and _source_from_pb.
Datasets_source_to_pb_mapping ==
    Dict(<< <<"unspecified", datasets_pb2.EXAMPLE_SOURCE_UNSPECIFIED>>,
          <<"manual", datasets_pb2.EXAMPLE_SOURCE_MANUAL>>,
          <<"generated", datasets_pb2.EXAMPLE_SOURCE_GENERATED>>,
          <<"production", datasets_pb2.EXAMPLE_SOURCE_PRODUCTION>>,
          <<"imported", datasets_pb2.EXAMPLE_SOURCE_IMPORTED>> >>)

Datasets_source_to_pb(v) ==
    Get(Datasets_source_to_pb_mapping, v, datasets_pb2.EXAMPLE_SOURCE_UNSPECIFIED)

Datasets_source_from_pb_mapping ==
    Dict(<< <<datasets_pb2.EXAMPLE_SOURCE_UNSPECIFIED, "unspecified">>,
          <<datasets_pb2.EXAMPLE_SOURCE_MANUAL, "manual">>,
          <<datasets_pb2.EXAMPLE_SOURCE_GENERATED, "generated">>,
          <<datasets_pb2.EXAMPLE_SOURCE_PRODUCTION, "production">>,
          <<datasets_pb2.EXAMPLE_SOURCE_IMPORTED, "imported">> >>)

Datasets_source_from_pb(w) ==
    Get(Datasets_source_from_pb_mapping, w, "unspecified")

\* EvalRunStatus: the tables of _status_to_pb and _status_from_pb.
Eval_status_to_pb_mapping ==
    Dict(<< <<"unspecified", eval_pb2.EVAL_RUN_STATUS_UNSPECIFIED>>,
          <<"pending", eval_pb2.EVAL_RUN_STATUS_PENDING>>,
          <<"running", eval_pb2.EVAL_RUN_STATUS_RUNNING>>,
          <<"completed", eval_pb2.EVAL_RUN_STATUS_COMPLETED>>,
          <<"failed", eval_pb2.EVAL_RUN_STATUS_FAILED>>,
          <<"cancelled", eval_pb2.EVAL_RUN_STATUS_CANCELLED>> >>)

Eval_status_to_pb(v) ==
    Get(Eval_status_to_pb_mapping, v, eval_pb2.EVAL_RUN_STATUS_UNSPECIFIED)

Eval_status_from_pb_mapping ==
    Dict(<< <<eval_pb2.EVAL_RUN_STATUS_UNSPECIFIED, "unspecified">>,
          <<eval_pb2.EVAL_RUN_STATUS_PENDING, "pending">>,
          <<eval_pb2.EVAL_RUN_STATUS_RUNNING, "running">>,
          <<eval_pb2.EVAL_RUN_STATUS_COMPLETED, "completed">>,
          <<eval_pb2.EVAL_RUN_STATUS_FAILED, "failed">>,
          <<eval_pb2.EVAL_RUN_STATUS_CANCELLED, "cancelled">> >>)

Eval_status_from_pb(w) ==
    Get(Eval_status_from_pb_mapping, w, "unspecified")

\* DeploymentType: the tables of _type_to_pb and _type_from_pb.
Deploy_type_to_pb_mapping ==
    Dict(<< <<"unspecified", deploy_pb2.DEPLOYMENT_TYPE_UNSPECIFIED>>,
          <<"immediate", deploy_pb2.DEPLOYMENT_TYPE_IMMEDIATE>>,
          <<"gradual", deploy_pb2.DEPLOYMENT_TYPE_GRADUAL>>,
          <<"canary", deploy_pb2.DEPLOYMENT_TYPE_CANARY>>,
          <<"blue_green", deploy_pb2.DEPLOYMENT_TYPE_BLUE_GREEN>> >>)

Deploy_type_to_pb(v) ==
    Get(Deploy_type_to_pb_mapping, v, deploy_pb2.DEPLOYMENT_TYPE_UNSPECIFIED)

Deploy_type_from_pb_mapping ==
    Dict(<< <<deploy_pb2.DEPLOYMENT_TYPE_UNSPECIFIED, "unspecified">>,
          <<deploy_pb2.DEPLOYMENT_TYPE_IMMEDIATE, "immediate">>,
          <<deploy_pb2.DEPLOYMENT_TYPE_GRADUAL, "gradual">>,
          <<deploy_pb2.DEPLOYMENT_TYPE_CANARY, "canary">>,
          <<deploy_pb2.DEPLOYMENT_TYPE_BLUE_GREEN, "blue_green">> >>)

Deploy_type_from_pb(w) ==
    Get(Deploy_type_from_pb_mapping, w, "unspecified")

\* DeploymentStatus: the tables of _status_to_pb and _status_from_pb.
Deploy_status_to_pb_mapping ==
    Dict(<< <<"unspecified", deploy_pb2.DEPLOYMENT_STATUS_UNSPECIFIED>>,
          <<"pending_approval", deploy_pb2.DEPLOYMENT_STATUS_PENDING_APPROVAL>>,
          <<"pending_gates", deploy_pb2.DEPLOYMENT_STATUS_PENDING_GATES>>,
          <<"gates_failed", deploy_pb2.DEPLOYMENT_STATUS_GATES_FAILED>>,
          <<"in_progress", deploy_pb2.DEPLOYMENT_STATUS_IN_PROGRESS>>,
          <<"completed", deploy_pb2.DEPLOYMENT_STATUS_COMPLETED>>,
          <<"rolled_back", deploy_pb2.DEPLOYMENT_STATUS_ROLLED_BACK>>,
          <<"cancelled", deploy_pb2.DEPLOYMENT_STATUS_CANCELLED>>,
          <<"failed", deploy_pb2.DEPLOYMENT_STATUS_FAILED>> >>)

Deploy_status_to_pb(v) ==
    Get(Deploy_status_to_pb_mapping, v, deploy_pb2.DEPLOYMENT_STATUS_UNSPECIFIED)

\* The table without its GATES_FAILED row.
Deploy_status_from_pb_mapping_short ==
    Dict(<< <<deploy_pb2.DEPLOYMENT_STATUS_UNSPECIFIED, "unspecified">>,
          <<deploy_pb2.DEPLOYMENT_STATUS_PENDING_APPROVAL, "pending_approval">>,
          <<deploy_pb2.DEPLOYMENT_STATUS_PENDING_GATES, "pending_gates">>,
          <<deploy_pb2.DEPLOYMENT_STATUS_IN_PROGRESS, "in_progress">>,
          <<deploy_pb2.DEPLOYMENT_STATUS_COMPLETED, "completed">>,
          <<deploy_pb2.DEPLOYMENT_STATUS_ROLLED_BACK, "rolled_back">>,
          <<deploy_pb2.DEPLOYMENT_STATUS_CANCELLED, "cancelled">>,
          <<deploy_pb2.DEPLOYMENT_STATUS_FAILED, "failed">> >>)

Deploy_status_from_pb_mapping ==
    Dict(<< <<deploy_pb2.DEPLOYMENT_STATUS_UNSPECIFIED, "unspecified">>,
          <<deploy_pb2.DEPLOYMENT_STATUS_PENDING_APPROVAL, "pending_approval">>,
          <<deploy_pb2.DEPLOYMENT_STATUS_PENDING_GATES, "pending_gates">>,
          <<deploy_pb2.DEPLOYMENT_STATUS_GATES_FAILED, "gates_failed">>,
          <<deploy_pb2.DEPLOYMENT_STATUS_IN_PROGRESS, "in_progress">>,
          <<deploy_pb2.DEPLOYMENT_STATUS_COMPLETED, "completed">>,
          <<deploy_pb2.DEPLOYMENT_STATUS_ROLLED_BACK, "rolled_back">>,
          <<deploy_pb2.DEPLOYMENT_STATUS_CANCELLED, "cancelled">>,
          <<deploy_pb2.DEPLOYMENT_STATUS_FAILED, "failed">> >>)

Deploy_status_from_pb(w) ==
    Get(Deploy_status_from_pb_mapping, w, "unspecified")

\* SpanKind: the tables of _kind_to_pb and _kind_from_pb.
Observe_kind_to_pb_mapping ==
    Dict(<< <<"unspecified", observe_pb2.SPAN_KIND_UNSPECIFIED>>,
          <<"internal", observe_pb2.SPAN_KIND_INTERNAL>>,
          <<"server", observe_pb2.SPAN_KIND_SERVER>>,
          <<"client", observe_pb2.SPAN_KIND_CLIENT>>,
          <<"producer", observe_pb2.SPAN_KIND_PRODUCER>>,
          <<"consumer", observe_pb2.SPAN_KIND_CONSUMER>> >>)

Observe_kind_to_pb(v) ==
    Get(Observe_kind_to_pb_mapping, v, observe_pb2.SPAN_KIND_UNSPECIFIED)

Observe_kind_from_pb_mapping ==
    Dict(<< <<observe_pb2.SPAN_KIND_UNSPECIFIED, "unspecified">>,
          <<observe_pb2.SPAN_KIND_INTERNAL, "internal">>,
          <<observe_pb2.SPAN_KIND_SERVER, "server">>,
          <<observe_pb2.SPAN_KIND_CLIENT, "client">>,
          <<observe_pb2.SPAN_KIND_PRODUCER, "producer">>,
          <<observe_pb2.SPAN_KIND_CONSUMER, "consumer">> >>)

Observe_kind_from_pb(w) ==
    Get(Observe_kind_from_pb_mapping, w, "unspecified")

\* SpanStatus: the tables of _status_to_pb and _status_from_pb.
Observe_status_to_pb_mapping ==
    Dict(<< <<"unset", observe_pb2.SPAN_STATUS_UNSET>>,
          <<"ok", observe_pb2.SPAN_STATUS_OK>>,
          <<"error", observe_pb2.SPAN_STATUS_ERROR>> >>)

Observe_status_to_pb(v) ==
    Get(Observe_status_to_pb_mapping, v, observe_pb2.SPAN_STATUS_UNSET)

Observe_status_from_pb_mapping ==
    Dict(<< <<observe_pb2.SPAN_STATUS_UNSET, "unset">>,
          <<observe_pb2.SPAN_STATUS_OK, "ok">>,
          <<observe_pb2.SPAN_STATUS_ERROR, "error">> >>)

Observe_status_from_pb(w) ==
    Get(Observe_status_from_pb_mapping, w, "unset")

\* The six mapper pairs by the enum they convert.
EnumNames == {"ExampleSource", "EvalRunStatus", "DeploymentType",
              "DeploymentStatus", "SpanKind", "SpanStatus"}

DomainValues(e) ==
    CASE e = "ExampleSource"    -> ExampleSource
      [] e = "EvalRunStatus"    -> EvalRunStatus
      [] e = "DeploymentType"   -> DeploymentType
      [] e = "DeploymentStatus" -> DeploymentStatus
      [] e = "SpanKind"         -> SpanKind
      [] e = "SpanStatus"       -> SpanStatus

ToPbMapping(e) ==
    CASE e = "ExampleSource"    -> Datasets_source_to_pb_mapping
      [] e = "EvalRunStatus"    -> Eval_status_to_pb_mapping
      [] e = "DeploymentType"   -> Deploy_type_to_pb_mapping
      [] e = "DeploymentStatus" -> Deploy_status_to_pb_mapping
      [] e = "SpanKind"         -> Observe_kind_to_pb_mapping
      [] e = "SpanStatus"       -> Observe_status_to_pb_mapping

FromPbMapping(e) ==
    CASE e = "ExampleSource"    -> Datasets_source_from_pb_mapping
      [] e = "EvalRunStatus"    -> Eval_status_from_pb_mapping
      [] e = "DeploymentType"   -> Deploy_type_from_pb_mapping
      [] e = "DeploymentStatus" -> Deploy_status_from_pb_mapping
      [] e = "SpanKind"         -> Observe_kind_from_pb_mapping
      [] e = "SpanStatus"       -> Observe_status_from_pb_mapping

ToPb(e, v) ==
    CASE e = "ExampleSource"    -> Datasets_source_to_pb(v)
      [] e = "EvalRunStatus"    -> Eval_status_to_pb(v)
      [] e = "DeploymentType"   -> Deploy_type_to_pb(v)
      [] e = "DeploymentStatus" -> Deploy_status_to_pb(v)
      [] e = "SpanKind"         -> Observe_kind_to_pb(v)
      [] e = "SpanStatus"       -> Observe_status_to_pb(v)

FromPb(e, w) ==
    CASE e = "ExampleSource"    -> Datasets_source_from_pb(w)
      [] e = "EvalRunStatus"    -> Eval_status_from_pb(w)
      [] e = "DeploymentType"   -> Deploy_type_from_pb(w)
      [] e = "DeploymentStatus" -> Deploy_status_from_pb(w)
      [] e = "SpanKind"         -> Observe_kind_from_pb(w)
      [] e = "SpanStatus"       -> Observe_status_from_pb(w)

\* A decoder that indexes its table: mapping[w] raises for a missing key.
FromPbStrict(e, w) ==
    IF w \in DOMAIN FromPbMapping(e)
    THEN [raised |-> "None", value |-> FromPbMapping(e)[w]]
    ELSE [raised |-> "KeyError", value |-> "-"]

\* What the caller of a _<x>_from_pb gets.
FromPbCall(e, w) == [raised |-> "None", value |-> FromPb(e, w)]

\* ------------------------------------------------------------------ Span <-> wire
Optional(S) == {None} \cup {Some(v) : v \in S}

\* x or ""  for an optional string
OrEmpty(x) == IF x = None \/ x[1] = "" THEN "" ELSE x[1]

\* pb.<field> if pb.<field> else None  for a wire string
NoneIfEmpty(w) == IF w # "" THEN Some(w) ELSE None

\* A datetime: an instant and whether it carries a timezone.
\* Timestamp.FromDatetime: the instant, a naive datetime being taken as UTC.
FromDatetime(dt) == dt.at

\* Timestamp.ToDatetime(timezone.utc): an aware datetime; an unset timestamp
\* field reads as the epoch.
ToDatetime(ts) == [at |-> IF ts = None THEN 0 ELSE ts[1], aware |-> TRUE]

\* ingest_spans: the wire Span built for one domain Span.
IngestSpansEncode(span) ==
    [trace_id       |-> span.trace_id,
     span_id        |-> span.span_id,
     parent_span_id |-> OrEmpty(span.parent_span_id),
     name           |-> span.name,
     kind           |-> Observe_kind_to_pb(span.kind),
     status         |-> Observe_status_to_pb(span.status),
     status_message |-> OrEmpty(span.status_message),
     attributes     |-> span.attributes,
     service_name   |-> span.service_name,
     start_time     |-> Some(FromDatetime(span.start_time)),
     end_time       |-> IF span.end_time # None
                        THEN Some(FromDatetime(span.end_time[1])) ELSE None]

\* _to_span: the domain Span built from a wire Span.
Observe_to_span(pb) ==
    [trace_id       |-> pb.trace_id,
     span_id        |-> pb.span_id,
     parent_span_id |-> NoneIfEmpty(pb.parent_span_id),
     name           |-> pb.name,
     kind           |-> Observe_kind_from_pb(pb.kind),
     start_time     |-> ToDatetime(pb.start_time),
     end_time       |-> IF pb.end_time # None
                        THEN Some(ToDatetime(pb.end_time)) ELSE None,
     status         |-> Observe_status_from_pb(pb.status),
     status_message |-> NoneIfEmpty(pb.status_message),
     attributes     |-> pb.attributes,
     service_name   |-> pb.service_name]

\* The strings an optional text field is drawn from.
Texts == {"", "p"}

Datetimes == [at : 1..MaxTime, aware : BOOLEAN]

\* Domain Spans a caller can pass to ingest_spans.
Spans ==
    [trace_id : {"t"}, span_id : {"s"}, parent_span_id : Optional(Texts),
     name : {"n"}, kind : SpanKind, start_time : Datetimes,
     end_time : Optional(Datetimes), status : SpanStatus,
     status_message : Optional(Texts), attributes : {[k \in {"k"} |-> "v"]},
     service_name : {""}]

\* Wire Spans a response can carry.
PbSpans ==
    [trace_id : {"t"}, span_id : {"s"}, parent_span_id : Texts,
     name : {"n"}, kind : 0..MaxWire, status : 0..MaxWire,
     status_message : Texts, attributes : {[k \in {"k"} |-> "v"]}, service_name : {""},
     start_time : {Some(t) : t \in 1..MaxTime},
     end_time : Optional(1..MaxTime)]

\* self._<x>_to_pb(value)
EnumToPb ==
    /\ inp.name = "enum"
    /\ out' = [name |-> "to_pb", wire |-> ToPb(inp.enum, inp.value)]
    /\ UNCHANGED <<steps, dropped, gens, inp, root, genMissing, sc, slots, nInst, handles, blk, lastOp,
                   tpc, tloc>>

\* self._<x>_from_pb(wire): of a value a response carries, or of the value
\* the encoder produced.
EnumFromPb ==
    /\ \E w \in (IF inp.name = "wire" THEN {inp.wire} ELSE {})
                 \cup (IF out.name = "to_pb" THEN {out.wire} ELSE {}) :
          LET r == FromPbCall(inp.enum, w)
          IN  out' = [name |-> "from_pb", wire |-> w, raised |-> r.raised,
                      value |-> r.value]
    /\ UNCHANGED <<steps, dropped, gens, inp, root, genMissing, sc, slots, nInst, handles, blk, lastOp,
                   tpc, tloc>>

\* client.ingest_spans([span]): the span is encoded into the request, then
\* the stub is read (which creates the channel and the stub on first use) and
\* the remote call is made; out is the wire Span the request carried.
IngestSpans ==
    /\ inp.name = "span"
    /\ out' = [name |-> "pb_span", pb |-> IngestSpansEncode(inp.span)]
    /\ \E e \in OpInputs(sc.svc, "ingest_spans") :
          LET r == ClientOp(sc, handles, "ingest_spans", e.outcome, e.resp,
                            e.frags, FALSE)
          IN  /\ Len(r.hs) <= MaxHandles
              /\ sc' = r.c
              /\ handles' = r.hs
              /\ lastOp' = OpRecord("service", "ingest_spans", e, r)
    /\ UNCHANGED <<steps, dropped, gens, inp, root, genMissing, slots, nInst, blk, tpc, tloc>>

\* self._to_span(pb): of a wire Span a response carries, or of the one the
\* encoder produced.
ToSpan ==
    /\ \E pb \in (IF inp.name = "pb_span" THEN {inp.pb} ELSE {})
                  \cup (IF out.name = "pb_span" THEN {out.pb} ELSE {}) :
          out' = [name |-> "span", pb |-> pb, span |-> Observe_to_span(pb)]
    /\ UNCHANGED <<steps, dropped, gens, inp, root, genMissing, sc, slots, nInst, handles, blk, lastOp,
                   tpc, tloc>>

\* The client whose mappers are exercised, with its generated module present.
InitWire ==
    /\ InitObjects("service")
    /\ genMissing = {}
    /\ out = NoCall
    /\ \/ \E e \in EnumNames : \E v \in DomainValues(e) :
             inp = [name |-> "enum", enum |-> e, value |-> v]
       \/ \E e \in EnumNames : \E w \in 0..MaxWire :
             inp = [name |-> "wire", enum |-> e, wire |-> w]
       \/ \E x \in Spans : inp = [name |-> "span", span |-> x]
       \/ \E pb \in PbSpans : inp = [name |-> "pb_span", pb |-> pb]
    /\ sc.svc = IF inp.name \in {"span", "pb_span"} THEN "observe"
                ELSE CASE inp.enum = "ExampleSource" -> "datasets"
                       [] inp.enum = "EvalRunStatus" -> "eval"
                       [] inp.enum \in {"DeploymentType", "DeploymentStatus"} -> "deploy"
                       [] OTHER -> "observe"

NextWire ==
    \/ EnumToPb
    \/ EnumFromPb
    \/ IngestSpans
    \/ ToSpan

SpecWire == InitWire /\ [][NextWire]_vars

\* ------------------------------------------------------------------ complete_stream
\* complete_stream is a generator function: the call returns an iterator and
\* runs nothing; each next() runs the body up to the next yield, to the end of
\* the remote stream, or to the exception that ends it.

\* The iterator a call returns.
NewIterator(n) ==
    [name |-> "iterator", id |-> n, state |-> "created", pos |-> 0,
     yielded |-> <<>>, last |-> "-", raised |-> "None"]

\* The iterator after a step of the loop.
AfterAdvance(it, a) ==
    IF a.yield # None
    THEN [it EXCEPT !.state = "suspended", !.pos = a.pos,
                    !.yielded = Append(@, a.yield[1]), !.last = a.yield[1]]
    ELSE [it EXCEPT !.state = "finished", !.pos = a.pos, !.last = a.exc,
                    !.raised = IF a.exc = "StopIteration" THEN "None" ELSE a.exc]

\* it = client.complete_stream(...)
CompleteStream ==
    /\ root = "service" /\ sc.svc = "runtime"
    /\ inp.name = "stream"
    /\ out.name \in {"-", "iterator"}
    /\ LET n == IF out.name = "iterator" THEN out.id + 1 ELSE 1
       IN  /\ n <= MaxStreamCalls
           /\ out' = NewIterator(n)
    /\ UNCHANGED <<steps, dropped, gens, inp, root, genMissing, sc, slots, nInst, handles, blk, lastOp,
                   tpc, tloc>>

\* next(it)
IteratorNext ==
    /\ root = "service" /\ sc.svc = "runtime"
    /\ out.name = "iterator"
    /\ IF out.state = "finished"
       THEN \* a finished generator: StopIteration, nothing runs
            /\ out' = [out EXCEPT !.last = "StopIteration"]
            /\ UNCHANGED <<steps, sc, handles>>
       ELSE IF out.state = "created"
       THEN \* the body starts: request, stub, the remote call, the loop
            IF sc.svc \in genMissing
            THEN /\ out' = [out EXCEPT !.state = "finished",
                                       !.last = "AttributeError",
                                       !.raised = "AttributeError"]
                 /\ UNCHANGED <<steps, sc, handles>>
            ELSE LET st  == StubGet(sc, handles, FALSE)
                     inv == Invoke(st.ret, st.hs, "ok")
                 IN  /\ sc' = st.c
                     /\ handles' = st.hs
                     /\ out' = IF inv.exc # "None"
                               THEN [out EXCEPT !.state = "finished",
                                                !.last = inv.exc,
                                                !.raised = inv.exc]
                               ELSE AfterAdvance(out,
                                        GenAdvance(inp.frags, inp.ending, 0))
       ELSE \* resumed after a yield
            /\ out' = AfterAdvance(out, GenAdvance(inp.frags, inp.ending, out.pos))
            /\ UNCHANGED <<steps, sc, handles>>
    /\ UNCHANGED <<steps, dropped, gens, inp, root, genMissing, slots, nInst, blk, lastOp, tpc, tloc>>

\* The contents of the fragments of a stream consumed step by step.
StreamContents == {"", "x", "y"}

\* A runtime client and a remote stream: its fragments and how it ends.
InitStream ==
    /\ InitObjects("service")
    /\ sc.svc = "runtime"
    /\ \E f \in SeqsUpTo(StreamContents, MaxStream) : \E e \in RemoteOutcomes :
          inp = [name |-> "stream", frags |-> f, ending |-> e]
    /\ out = NoCall

NextStream ==
    \/ CompleteStream
    \/ IteratorNext

SpecStream == InitStream /\ [][NextStream]_vars

\* ------------------------------------------------------------------ requests and responses
\* The operations that create or update a resource and return it.
CreateUpdateOps(svc) ==
    CASE svc = "prompts"  -> {"create", "update"}
      [] svc = "datasets" -> {"create", "update"}
      [] svc = "eval"     -> {"create_run"}
      [] svc = "deploy"   -> {"create", "create_quality_gate"}
      [] OTHER            -> {}

\* The operations that take limit and offset and return (items, total_count).
ListOps(svc) ==
    CASE svc = "prompts"  -> {"list"}
      [] svc = "datasets" -> {"list", "get_examples"}
      [] svc = "eval"     -> {"list_runs", "get_results"}
      [] svc = "deploy"   -> {"list"}
      [] OTHER            -> {}

\* The domain type of the items of a page.
ItemType(svc, op) ==
    CASE svc = "prompts"                          -> "Prompt"
      [] svc = "datasets" /\ op = "list"          -> "Dataset"
      [] svc = "datasets" /\ op = "get_examples"  -> "Example"
      [] svc = "eval" /\ op = "list_runs"         -> "EvalRun"
      [] svc = "eval" /\ op = "get_results"       -> "EvalResult"
      [] svc = "deploy"                           -> "Deployment"

Names == {"a", "b"}

\* The arguments of a create/update: the identifying field (name or id) and
\* one of the optional fields (description, template, ...).
CreateArgs == [key : Names, text : Texts]

ListArgs == [limit : 0..MaxLimit, offset : 0..MaxOffset]

\* The resource messages a response can carry.
PbObjects == [id : 1..MaxId, name : Names, text : Texts]

\* A list request that leaves the offset at its default.
BuildRequestDropsOffset(svc, op, args) ==
    IF op \in ListOps(svc)
    THEN [rpc |-> op, limit |-> args.limit, offset |-> 0]
    ELSE [rpc |-> op, key |-> args.key, text |-> args.text]

\* The request message an operation builds from its arguments.
BuildRequest(svc, op, args) ==
    IF op \in ListOps(svc)
    THEN [rpc |-> op, limit |-> args.limit, offset |-> args.offset]
    ELSE [rpc |-> op, key |-> args.key, text |-> args.text]

\* The service's collection of n resources, as it would list them.
Backing(n) == [i \in 1..n |-> [id |-> i, name |-> "a", text |-> ""]]

\* The service's answer to a list request: the page at offset of at most
\* limit items, and the size of the collection.
ServerPage(request, n) ==
    LET last == IF request.offset + request.limit < n
                THEN request.offset + request.limit ELSE n
    IN  [items       |-> SubSeq(Backing(n), request.offset + 1, last),
         total_count |-> n]

\* _to_prompt, _to_dataset, _to_run, ...: every field from the message.
ToModel(type, pb) ==
    [type |-> type, id |-> pb.id, name |-> pb.name, text |-> pb.text]

\* A converter call that fills the name from the call's argument.
OpResultEchoesInput(svc, op, args, response) ==
    IF op \in ListOps(svc)
    THEN [type        |-> ReturnType(svc, op),
          items       |-> [i \in 1..Len(response.items) |->
                             ToModel(ItemType(svc, op), response.items[i])],
          total_count |-> response.total_count]
    ELSE [ToModel(ReturnType(svc, op), response) EXCEPT !.name = args.key]

\* What the operation returns for a response: the converted resource, or
\* the converted items in response order with the response's total_count.
OpResult(svc, op, args, response) ==
    IF op \in ListOps(svc)
    THEN [type        |-> ReturnType(svc, op),
          items       |-> [i \in 1..Len(response.items) |->
                             ToModel(ItemType(svc, op), response.items[i])],
          total_count |-> response.total_count]
    ELSE ToModel(ReturnType(svc, op), response)

\* client.<op>(**args) on a new client: the request built and sent, the
\* response, and what the caller gets.
Call ==
    /\ root = "service"
    /\ inp.name = "call"
    /\ LET op       == inp.op
           r        == ClientOp(sc, handles, op, inp.outcome, Null, <<>>, FALSE)
           request  == BuildRequest(sc.svc, op, inp.args)
           response == IF op \in ListOps(sc.svc)
                       THEN ServerPage(request, inp.total)
                       ELSE inp.response
       IN  /\ sc' = r.c
           /\ handles' = r.hs
           /\ out' = [name   |-> "result",
                      sent   |-> IF r.calls = 1 THEN <<request>> ELSE <<>>,
                      raised |-> r.raised,
                      value  |-> IF r.raised = "None"
                                 THEN Some(OpResult(sc.svc, op, inp.args, response))
                                 ELSE None]
    /\ out.name = "-"
    /\ UNCHANGED <<steps, dropped, gens, inp, root, genMissing, slots, nInst, blk, lastOp, tpc, tloc>>

\* A new service client, the arguments of one call, and what the service
\* does with it.
InitCall ==
    /\ InitObjects("service")
    /\ out = NoCall
    /\ \/ \E op \in CreateUpdateOps(sc.svc) : \E a \in CreateArgs :
          \/ \E pb \in PbObjects :
                inp = [name |-> "call", op |-> op, args |-> a, outcome |-> "ok",
                       response |-> pb, total |-> 0]
          \/ \E o \in RemoteOutcomes \ {"ok"} :
                inp = [name |-> "call", op |-> op, args |-> a, outcome |-> o,
                       response |-> None, total |-> 0]
       \/ \E op \in ListOps(sc.svc) : \E a \in ListArgs :
          \E o \in RemoteOutcomes : \E n \in 0..MaxTotal :
                /\ o # "ok" => n = 0
                /\ inp = [name |-> "call", op |-> op, args |-> a, outcome |-> o,
                          response |-> None, total |-> n]

NextCall == Call

SpecCall == InitCall /\ [][NextCall]_vars

\* ------------------------------------------------------------------ Prompt.render
\* A template is a sequence of pieces: literal text, or a placeholder
\* {{name}}. A variable's value is text too, and can contain a placeholder.
VarNames == {"a", "b"}

Placeholder(name) == IF name = "a" THEN "{{a}}" ELSE "{{b}}"

Pieces == {"h"} \cup {Placeholder(n) : n \in VarNames}

Templates == SeqsUpTo(Pieces, MaxPieces)

\* The values a caller supplies: the empty string, plain text, or text that
\* is itself a placeholder.
Values == {<<>>, <<"W">>} \cup {<<Placeholder(n)>> : n \in VarNames}

\* The variables argument: None, or a dict, whose items come in insertion
\* order, each name once.
VariableDicts ==
    {<<>>}
    \cup {<< <<n, v>> >> : n \in VarNames, v \in Values}
    \cup {<< <<p[1], p[2]>>, <<p[3], p[4]>> >> :
             p \in {q \in VarNames \X Values \X VarNames \X Values : q[1] # q[3]}}

\* Prompt.get_version: the first version with the wanted number, or None.
RECURSIVE FirstVersion(_, _, _)
FirstVersion(versions, target, i) ==
    IF i > Len(versions) THEN None
    ELSE IF versions[i].version = target THEN Some(versions[i])
    ELSE FirstVersion(versions, target, i + 1)

\* target = version or self.current_version
Prompt_get_version(prompt, version) ==
    LET target == IF version = None \/ version[1] = 0
                  THEN prompt.current_version ELSE version[1]
    IN  FirstVersion(prompt.versions, target, 1)

\* template.replace("{{name}}", value): every occurrence, left to right.
RECURSIVE Replace(_, _, _)
Replace(template, name, value) ==
    IF template = <<>> THEN <<>>
    ELSE IF Head(template) = Placeholder(name)
    THEN value \o Replace(Tail(template), name, value)
    ELSE <<Head(template)>> \o Replace(Tail(template), name, value)

\* for name, value in variables.items(): template = template.replace(...)
RECURSIVE ReplaceAll(_, _, _)
ReplaceAll(template, items, i) ==
    IF i > Len(items) THEN template
    ELSE ReplaceAll(Replace(template, items[i][1], items[i][2]), items, i + 1)

\* Prompt.render(variables, version)
Prompt_render(prompt, variables, version) ==
    LET v == Prompt_get_version(prompt, version)
    IN  IF v = None
        THEN [name |-> "render", raised |-> "ValueError", value |-> None]
        ELSE [name |-> "render", raised |-> "None",
              value |-> Some(IF variables # None /\ variables[1] # <<>>
                             THEN ReplaceAll(v[1].template, variables[1], 1)
                             ELSE v[1].template)]

\* prompt.render(variables, version)
Render ==
    /\ inp.name = "render"
    /\ out' = Prompt_render(inp.prompt, inp.variables, inp.version)
    /\ UNCHANGED <<steps, dropped, gens, inp, root, genMissing, sc, slots, nInst, handles, blk, lastOp,
                   tpc, tloc>>

\* A Prompt with two versions, and the arguments of one render call.
InitRender ==
    /\ InitObjects("service")
    /\ sc.svc = "prompts"
    /\ genMissing = {}
    /\ out = NoCall
    /\ \E t \in Templates : \E cur \in 1..MaxVersion :
       \E vars_ \in Optional(VariableDicts) :
       \E ver \in Optional(0..MaxVersion + 1) :
          inp = [name      |-> "render",
                 prompt    |-> [current_version |-> cur,
                                versions |-> [i \in 1..MaxVersion |->
                                    [version  |-> i,
                                     template |-> IF i = MaxVersion THEN t
                                                  ELSE <<"old">>]]],
                 variables |-> vars_,
                 version   |-> ver]

NextRender == Render

SpecRender == InitRender /\ [][NextRender]_vars

\* ------------------------------------------------------------------ domain models
\* The computed properties of the domain models, each applied to a model
\* object drawn at the start.

\* is_complete without GATES_FAILED in its tuple.
Deployment_is_complete_short(d) ==
    d.status \in {"completed", "rolled_back", "cancelled", "failed"}

\* Deployment.is_active
Deployment_is_active(d) ==
    d.status \in {"pending_approval", "pending_gates", "in_progress"}

\* Deployment.is_complete
Deployment_is_complete(d) ==
    d.status \in {"completed", "rolled_back", "cancelled", "failed", "gates_failed"}

\* A float result kept exact: the fraction num / den.
Ratio(n, d) == [num |-> n, den |-> d]

\* a / b  on numbers: ZeroDivisionError when b is 0.
Divide(a, b) ==
    IF b = 0 THEN [raised |-> "ZeroDivisionError", value |-> Ratio(0, 1)]
    ELSE [raised |-> "None", value |-> Ratio(a, b)]

\* progress without the guard on total_examples.
EvalRun_progress_unguarded(run) ==
    LET q == Divide(run.completed_examples, run.total_examples)
    IN  [raised |-> q.raised, value |-> Ratio(q.value.num * 100, q.value.den)]

\* EvalRun.progress
EvalRun_progress(run) ==
    IF run.total_examples = 0
    THEN [raised |-> "None", value |-> Ratio(0, 1)]
    ELSE LET q == Divide(run.completed_examples, run.total_examples)
         IN  [raised |-> q.raised, value |-> Ratio(q.value.num * 100, q.value.den)]

\* has_more with <= for <.
PaginatedResponse_has_more_inclusive(page) ==
    page.offset + Len(page.items) <= page.total_count

\* PaginatedResponse.has_more
PaginatedResponse_has_more(page) ==
    page.offset + Len(page.items) < page.total_count

\* end - start  on datetimes, in milliseconds: TypeError when one operand
\* carries a timezone and the other does not.
DatetimeSub(end, start) ==
    IF end.aware # start.aware
    THEN [raised |-> "TypeError", value |-> 0]
    ELSE [raised |-> "None", value |-> end.at - start.at]

\* timedelta.total_seconds() * 1000, for a timedelta given in milliseconds.
TotalSecondsTimes1000(ms) == Ratio(ms * 1000, 1000)

\* Span.duration_ms
Span_duration_ms(span) ==
    IF span.end_time = None
    THEN [raised |-> "None", value |-> None]
    ELSE LET d == DatetimeSub(span.end_time[1], span.start_time)
         IN  [raised |-> d.raised,
              value  |-> IF d.raised = "None"
                         THEN Some(TotalSecondsTimes1000(d.value)) ELSE None]

\* Trace.duration_ms computing start - end.
Trace_duration_ms_reversed(trace) ==
    IF trace.start_time = None \/ trace.end_time = None
    THEN [raised |-> "None", value |-> None]
    ELSE LET d == DatetimeSub(trace.start_time[1], trace.end_time[1])
         IN  [raised |-> d.raised,
              value  |-> IF d.raised = "None"
                         THEN Some(TotalSecondsTimes1000(d.value)) ELSE None]

\* Trace.duration_ms
Trace_duration_ms(trace) ==
    IF trace.start_time = None \/ trace.end_time = None
    THEN [raised |-> "None", value |-> None]
    ELSE LET d == DatetimeSub(trace.end_time[1], trace.start_time[1])
         IN  [raised |-> d.raised,
              value  |-> IF d.raised = "None"
                         THEN Some(TotalSecondsTimes1000(d.value)) ELSE None]

\* root_span returning the last parentless span.
RECURSIVE RootSpanLast(_, _)
RootSpanLast(spans, i) ==
    IF i < 1 THEN None
    ELSE IF spans[i].parent_span_id = None THEN Some(spans[i])
    ELSE RootSpanLast(spans, i - 1)

\* The loop of root_span from position i on.
RECURSIVE RootSpanFrom(_, _)
RootSpanFrom(spans, i) ==
    IF i > Len(spans) THEN None
    ELSE IF spans[i].parent_span_id = None THEN Some(spans[i])
    ELSE RootSpanFrom(spans, i + 1)

\* root_span with the scan order reversed.
Trace_root_span_last(trace) == RootSpanLast(trace.spans, Len(trace.spans))

\* Trace.root_span
Trace_root_span(trace) == RootSpanFrom(trace.spans, 1)

\* deployment.is_active, deployment.is_complete
DeploymentProperties ==
    /\ inp.name = "deployment"
    /\ out' = [name        |-> "deployment",
               is_active   |-> Deployment_is_active(inp.obj),
               is_complete |-> Deployment_is_complete(inp.obj)]
    /\ UNCHANGED <<steps, dropped, gens, inp, root, genMissing, sc, slots, nInst, handles, blk, lastOp,
                   tpc, tloc>>

\* run.progress
Progress ==
    /\ inp.name = "eval_run"
    /\ LET r == EvalRun_progress(inp.obj)
       IN  out' = [name |-> "progress", raised |-> r.raised, value |-> r.value]
    /\ UNCHANGED <<steps, dropped, gens, inp, root, genMissing, sc, slots, nInst, handles, blk, lastOp,
                   tpc, tloc>>

\* page.has_more
HasMore ==
    /\ inp.name = "page"
    /\ out' = [name |-> "has_more", value |-> PaginatedResponse_has_more(inp.obj)]
    /\ UNCHANGED <<steps, dropped, gens, inp, root, genMissing, sc, slots, nInst, handles, blk, lastOp,
                   tpc, tloc>>

\* span.duration_ms
SpanDuration ==
    /\ inp.name = "span"
    /\ LET r == Span_duration_ms(inp.obj)
       IN  out' = [name |-> "span_duration", raised |-> r.raised, value |-> r.value]
    /\ UNCHANGED <<steps, dropped, gens, inp, root, genMissing, sc, slots, nInst, handles, blk, lastOp,
                   tpc, tloc>>

\* trace.duration_ms
TraceDuration ==
    /\ inp.name = "trace"
    /\ LET r == Trace_duration_ms(inp.obj)
       IN  out' = [name |-> "trace_duration", raised |-> r.raised, value |-> r.value]
    /\ UNCHANGED <<steps, dropped, gens, inp, root, genMissing, sc, slots, nInst, handles, blk, lastOp,
                   tpc, tloc>>

\* trace.root_span
RootSpan ==
    /\ inp.name = "trace"
    /\ out' = [name |-> "root_span", value |-> Trace_root_span(inp.obj)]
    /\ UNCHANGED <<steps, dropped, gens, inp, root, genMissing, sc, slots, nInst, handles, blk, lastOp,
                   tpc, tloc>>

\* Instants half a second apart, with or without a timezone.
Instants == [at : {k * 500 : k \in 0..MaxTicks}, aware : BOOLEAN]

\* The spans of a trace whose root is looked up.
TraceSpans ==
    [span_id : {"s1", "s2", "s3"}, parent_span_id : Optional({"", "p"}),
     start_time : {[at |-> 0, aware |-> TRUE]}, end_time : {None}]

\* The model objects the properties are applied to.
ModelInputs ==
    {[name |-> "deployment", obj |-> [status |-> st]] : st \in DeploymentStatus}
    \cup {[name |-> "eval_run",
           obj |-> [total_examples |-> t, completed_examples |-> c]] :
              t \in 0..MaxExamples, c \in 0..MaxExamples}
    \cup {[name |-> "page",
           obj |-> [items |-> [i \in 1..n |-> i], total_count |-> t,
                    limit |-> MaxPage, offset |-> o]] :
              n \in 0..MaxPage, t \in 0..MaxCount, o \in 0..MaxCount}
    \cup {[name |-> "span",
           obj |-> [span_id |-> "s1", parent_span_id |-> None,
                    start_time |-> st, end_time |-> en]] :
              st \in Instants, en \in Optional(Instants)}
    \cup {[name |-> "trace",
           obj |-> [spans |-> <<>>, start_time |-> st, end_time |-> en]] :
              st \in Optional(Instants), en \in Optional(Instants)}
    \cup {[name |-> "trace",
           obj |-> [spans |-> sp, start_time |-> None, end_time |-> None]] :
              sp \in SeqsUpTo(TraceSpans, MaxSpans)}

InitModels ==
    /\ InitObjects("service")
    /\ genMissing = {}
    /\ sc.svc = "observe"
    /\ out = NoCall
    /\ inp \in ModelInputs

NextModels ==
    \/ DeploymentProperties
    \/ Progress
    \/ HasMore
    \/ SpanDuration
    \/ TraceDuration
    \/ RootSpan

SpecModels == InitModels /\ [][NextModels]_vars

\* ------------------------------------------------------------------ TLS endpoints
\* A service client whose endpoint may request TLS, where building the
\* credentials for a secure channel can fail.

\* What grpc.ssl_channel_credentials() does in one access.
CredentialOutcomes == {"ok", "error"}

\* A channel accessor that falls back to an insecure channel when the
\* credentials cannot be built.
ChannelFallsBack(c, hs, creds, scoped) ==
    LET r == ChannelGet(c, hs, scoped)
    IN  [c |-> r.c, hs |-> r.hs, ret |-> r.ret, exc |-> "None",
         attempts |-> IF c.channel = Null /\ c.endpoint.use_tls THEN 1 ELSE 0]

\* BaseClient.channel with both branches: with no channel and use_tls set the
\* credentials are built first, once, and a failure there leaves the
\* accessor before anything is assigned. attempts counts the credential
\* constructions of this access.
Channel(c, hs, creds, scoped) ==
    IF c.channel = Null /\ c.endpoint.use_tls /\ creds = "error"
    THEN [c |-> c, hs |-> hs, ret |-> Null, exc |-> "CredentialsError",
          attempts |-> 1]
    ELSE LET r == ChannelGet(c, hs, scoped)
         IN  [c |-> r.c, hs |-> r.hs, ret |-> r.ret, exc |-> "None",
              attempts |-> IF c.channel = Null /\ c.endpoint.use_tls
                           THEN 1 ELSE 0]

\* client.channel, with the credentials available or not
TlsChannel ==
    /\ \E creds \in CredentialOutcomes :
          LET r == Channel(sc, handles, creds, FALSE)
          IN  /\ Len(r.hs) <= MaxHandles
              /\ sc' = r.c
              /\ handles' = r.hs
              /\ lastOp' = [Idle("service", "channel") EXCEPT
                               !.outcome = creds,
                               !.raised = r.exc,
                               !.calls = r.attempts,
                               !.value = IF r.exc = "None"
                                         THEN [type |-> "Channel", id |-> r.ret]
                                         ELSE NoValue,
                               !.again = (lastOp.name = "channel"
                                          /\ lastOp.raised # "None")]
    /\ UNCHANGED <<steps, dropped, gens, inp, out, root, genMissing, slots, nInst, blk, tpc, tloc>>

\* client.close()
TlsClose ==
    /\ LET r == ClientClose(sc, handles)
       IN  /\ sc' = r.c
           /\ handles' = r.hs
           /\ lastOp' = [Idle("service", "close") EXCEPT !.released = r.released]
    /\ UNCHANGED <<steps, dropped, gens, inp, out, root, genMissing, slots, nInst, blk, tpc, tloc>>

\* One service client whose endpoint does or does not request TLS.
InitTls ==
    /\ root = "service"
    /\ genMissing = {}
    /\ \E svc \in Services : \E tls \in BOOLEAN :
          sc = NewClient(1, svc, [ConfigEndpoint(svc) EXCEPT !.use_tls = tls],
                         DelosConfig.timeout)
    /\ nInst = 1
    /\ slots = [s \in Services |-> NoClient]
    /\ handles = <<>>
    /\ blk = "out"
    /\ lastOp = Idle("service", "__init__")
    /\ gens = <<>>
    /\ dropped = {}
    /\ steps = 0
    /\ tpc = [t \in Threads |-> "idle"]
    /\ tloc = [t \in Threads |-> NoLocals]
    /\ inp = NoCall
    /\ out = NoCall

NextTls ==
    \/ TlsChannel
    \/ TlsClose

SpecTls == InitTls /\ [][NextTls]_vars

\* ------------------------------------------------------------------ a failing close
\* DelosClient.close() when closing a channel can fail.

\* BaseClient.close where self._channel.close() raises for the channel bad:
\* the exception leaves close() before the field is reset, and the channel
\* is taken to be as it was.
ClientCloseOrRaise(c, hs, bad) ==
    IF c.channel # Null /\ c.channel = bad
    THEN [c |-> c, hs |-> hs, released |-> {}, exc |-> "CloseError"]
    ELSE LET r == ClientClose(c, hs)
         IN  [c |-> r.c, hs |-> r.hs, released |-> r.released, exc |-> "None"]

\* A close() that goes on past the sub-client whose close() failed and
\* raises the failure at the end.
RECURSIVE CloseSlotsIsolated(_, _, _, _, _)
CloseSlotsIsolated(sl, hs, rel, i, bad) ==
    IF i > Len(SlotOrder)
    THEN [sl |-> sl, hs |-> hs, released |-> rel,
          raised |-> IF \E svc \in Services :
                           sl[svc].inst # Null /\ sl[svc].channel = bad
                     THEN "CloseError" ELSE "None"]
    ELSE LET svc == SlotOrder[i]
         IN  IF sl[svc].inst # Null
             THEN LET r == ClientCloseOrRaise(sl[svc], hs, bad)
                  IN  IF r.exc # "None"
                      THEN CloseSlotsIsolated(sl, hs, rel, i + 1, bad)
                      ELSE CloseSlotsIsolated([sl EXCEPT ![svc] = NoClient], r.hs,
                                              rel \cup r.released, i + 1, bad)
             ELSE CloseSlotsIsolated(sl, hs, rel, i + 1, bad)

\* DelosClient.close from position i of the slot order on, when closing the
\* channel bad raises: the exception ends close() at that slot.
RECURSIVE CloseSlotsOrRaise(_, _, _, _, _)
CloseSlotsOrRaise(sl, hs, rel, i, bad) ==
    IF i > Len(SlotOrder)
    THEN [sl |-> sl, hs |-> hs, released |-> rel, raised |-> "None"]
    ELSE LET svc == SlotOrder[i]
         IN  IF sl[svc].inst # Null
             THEN LET r == ClientCloseOrRaise(sl[svc], hs, bad)
                  IN  IF r.exc # "None"
                      THEN [sl |-> sl, hs |-> hs, released |-> rel,
                            raised |-> r.exc]
                      ELSE CloseSlotsOrRaise([sl EXCEPT ![svc] = NoClient], r.hs,
                                             rel \cup r.released, i + 1, bad)
             ELSE CloseSlotsOrRaise(sl, hs, rel, i + 1, bad)

\* client.close() where closing one of the channels, or none, fails
FacadeCloseOrRaise ==
    /\ Statement
    /\ root = "facade" /\ CanAct
    /\ \E bad \in {Null} \cup (1..Len(handles)) :
          LET r == CloseSlotsOrRaise(slots, handles, {}, 1, bad)
          IN  /\ slots' = r.sl
              /\ handles' = r.hs
              /\ dropped' = dropped \cup DroppedBy(slots, r.sl, handles)
              /\ lastOp' = [Idle("facade", "close") EXCEPT
                               !.raised = r.raised,
                               !.released = r.released,
                               !.via = bad]
    /\ UNCHANGED <<gens, inp, out, root, genMissing, sc, nInst, blk, tpc, tloc>>

InitClose ==
    /\ InitRoot("facade")
    /\ genMissing = {}

NextClose ==
    \/ Property
    \/ FacadeCall
    \/ FacadeIterate
    \/ SubChannel
    \/ SubStub
    \/ SubClose
    \/ FacadeCloseOrRaise

SpecClose == InitClose /\ [][NextClose]_vars

\* ------------------------------------------------------------------ racing threads
\* Each thread runs one operation of the same service client. Under the
\* interpreter lock a thread can be preempted between any two attribute reads
\* and writes, so the stub and channel accessors are taken one access at a time.

\* client.<op>(...): the request is built from the generated message module.
RStart ==
    \E t \in Threads :
       /\ tpc[t] = "idle"
       /\ IF sc.svc \in genMissing
          THEN /\ tpc' = [tpc EXCEPT ![t] = "done"]
               /\ tloc' = [tloc EXCEPT ![t].raised = "AttributeError"]
          ELSE /\ tpc' = [tpc EXCEPT ![t] = "stub_check"]
               /\ tloc' = tloc
       /\ UNCHANGED <<steps, dropped, gens, inp, out, root, genMissing, sc, slots, nInst, handles, blk, lastOp>>

\* stub:  if self._stub is None
RStubCheck ==
    \E t \in Threads :
       /\ tpc[t] = "stub_check"
       /\ tpc' = [tpc EXCEPT ![t] = IF sc.stub = Null THEN "chan_check"
                                                    ELSE "stub_ret"]
       /\ UNCHANGED <<steps, dropped, gens, inp, out, root, genMissing, sc, slots, nInst, handles, blk, lastOp, tloc>>

\* channel:  if self._channel is None
RChanCheck ==
    \E t \in Threads :
       /\ tpc[t] = "chan_check"
       /\ tpc' = [tpc EXCEPT ![t] = IF sc.channel = Null THEN "chan_create"
                                                       ELSE "chan_ret"]
       /\ UNCHANGED <<steps, dropped, gens, inp, out, root, genMissing, sc, slots, nInst, handles, blk, lastOp, tloc>>

\* channel:  grpc.insecure_channel(address) / grpc.secure_channel(...)
RChanCreate ==
    \E t \in Threads :
       /\ tpc[t] = "chan_create"
       /\ handles' = Append(handles, NewHandle(sc, FALSE))
       /\ tloc' = [tloc EXCEPT ![t].h = Len(handles) + 1]
       /\ tpc' = [tpc EXCEPT ![t] = "chan_store"]
       /\ UNCHANGED <<steps, dropped, gens, inp, out, root, genMissing, sc, slots, nInst, blk, lastOp>>

\* channel:  self._channel = <the new channel>
RChanStore ==
    \E t \in Threads :
       /\ tpc[t] = "chan_store"
       /\ sc' = [sc EXCEPT !.channel = tloc[t].h]
       /\ tpc' = [tpc EXCEPT ![t] = "chan_ret"]
       /\ UNCHANGED <<steps, dropped, gens, inp, out, root, genMissing, slots, nInst, handles, blk, lastOp, tloc>>

\* channel:  return self._channel
RChanReturn ==
    \E t \in Threads :
       /\ tpc[t] = "chan_ret"
       /\ tloc' = [tloc EXCEPT ![t].h = sc.channel]
       /\ tpc' = [tpc EXCEPT ![t] = "stub_store"]
       /\ UNCHANGED <<steps, dropped, gens, inp, out, root, genMissing, sc, slots, nInst, handles, blk, lastOp>>

\* stub:  self._stub = <Service>Stub(<the channel>)
RStubStore ==
    \E t \in Threads :
       /\ tpc[t] = "stub_store"
       /\ sc' = [sc EXCEPT !.stub = tloc[t].h]
       /\ tpc' = [tpc EXCEPT ![t] = "stub_ret"]
       /\ UNCHANGED <<steps, dropped, gens, inp, out, root, genMissing, slots, nInst, handles, blk, lastOp, tloc>>

\* stub:  return self._stub
RStubReturn ==
    \E t \in Threads :
       /\ tpc[t] = "stub_ret"
       /\ tloc' = [tloc EXCEPT ![t].stub = sc.stub]
       /\ tpc' = [tpc EXCEPT ![t] = "invoke"]
       /\ UNCHANGED <<steps, dropped, gens, inp, out, root, genMissing, sc, slots, nInst, handles, blk, lastOp>>

\* stub.<Rpc>(request, timeout=self._timeout)
RInvoke ==
    \E t \in Threads : \E o \in {"ok", "unavailable"} :
       /\ tpc[t] = "invoke"
       /\ LET inv == Invoke(tloc[t].stub, handles, o)
          IN  tloc' = [tloc EXCEPT ![t].used = tloc[t].stub,
                                   ![t].raised = inv.exc]
       /\ tpc' = [tpc EXCEPT ![t] = "done"]
       /\ UNCHANGED <<steps, dropped, gens, inp, out, root, genMissing, sc, slots, nInst, handles, blk, lastOp>>

\* ------------------------------------------------------------------ specifications
Next ==
    \/ DirectCall
    \/ DirectIterate
    \/ DirectChannel
    \/ DirectStub
    \/ DirectClose

Spec == Init /\ [][Next]_vars

NextLife ==
    \/ LifeCall
    \/ LifeIterate
    \/ DirectChannel
    \/ DirectStub
    \/ DirectClose
    \/ DirectEnter
    \/ DirectExit
    \/ Property
    \/ FacadeCall
    \/ FacadeIterate
    \/ SubChannel
    \/ SubStub
    \/ SubClose
    \/ FacadeClose
    \/ FacadeEnter
    \/ FacadeExit
    \/ HealthCheck
    \/ HealthWait

SpecLife == InitLife /\ [][NextLife]_vars

NextRace ==
    \/ RStart
    \/ RStubCheck
    \/ RChanCheck
    \/ RChanCreate
    \/ RChanStore
    \/ RChanReturn
    \/ RStubStore
    \/ RStubReturn
    \/ RInvoke

SpecRace == Init /\ [][NextRace]_vars

\* ------------------------------------------------------------------ claims
\* The last step ran a remote operation of the service client: any operation
\* but complete_stream, whose call runs nothing, or a next() of a generator
\* complete_stream returned.
WasOp ==
    /\ lastOp.target = "service"
    /\ lastOp.name \in (Operations(sc.svc) \ StreamOps(sc.svc)) \cup {"iterate"}

WasGet == WasOp /\ lastOp.name \in GetStyle(sc.svc)

\* The remote service answered (or failed) the last operation's call.
Reached == lastOp.calls >= 1

\* The domain type each Get-style lookup returns.
GetResultType ==
    [prompts  |-> [get |-> "Prompt", get_version |-> "PromptVersion"],
     datasets |-> [get |-> "Dataset"],
     eval     |-> [get_run |-> "EvalRun"],
     deploy   |-> [get |-> "Deployment"],
     observe  |-> [get_trace |-> "Trace"]]

\* C1: a Get-style lookup whose remote call fails with anything but not-found
\* (permission, validation, internal, transport) raises; it never returns None.
C1_OtherFailuresPropagate ==
    (WasGet /\ Reached
        /\ lastOp.outcome \in {"permission_denied", "invalid_argument",
                               "internal", "unavailable"})
    => (lastOp.raised # "None" /\ lastOp.value # NoneValue)

\* C2: a Get-style lookup returns None and raises nothing when the service
\* reports not-found, and returns the decoded domain object when the service
\* returns the resource.
C2_GetNotFoundIsNone ==
    (WasGet /\ Reached) =>
        /\ lastOp.outcome = "not_found" =>
              (lastOp.raised = "None" /\ lastOp.value = NoneValue)
        /\ lastOp.outcome = "ok" =>
              /\ lastOp.raised = "None"
              /\ lastOp.value = [type |-> GetResultType[sc.svc][lastOp.name],
                                 id   |-> lastOp.resp]

C2_Witness ==
    /\ WasGet /\ Reached
    /\ lastOp.outcome = "not_found"
    /\ lastOp.value = NoneValue

\* C3: an operation whose remote call times out raises a remote-call failure
\* (no value, no None) after exactly one remote invocation.
C3_TimeoutIsFailure ==
    (WasOp /\ Reached /\ lastOp.outcome = "deadline_exceeded"
        /\ lastOp.delivered = <<>>)
    => (lastOp.raised = "RpcError" /\ lastOp.value = NoValue /\ lastOp.calls = 1)

\* C4: with the generated code of the service missing, every operation fails
\* with the stub accessor's ImportError ("Generated protobuf code not found"),
\* not with a None-dereference, and returns nothing.
C4_MissingCodeIsImportError ==
    (WasOp /\ sc.svc \in genMissing)
    => (lastOp.raised = "ImportError" /\ lastOp.value = NoValue)

\* C5: no operation is issued through a stub bound to a channel that close()
\* has released: the channel an operation goes through is open and is the
\* client's current one.
C5_CallsUseOpenHandle ==
    (WasOp /\ lastOp.via # Null)
    => (handles[lastOp.via].open /\ lastOp.via = sc.channel)

\* C6: threads racing on the first access create exactly one channel, every
\* one of them calls through it, and no channel is left open outside the
\* client's field.
C6_OneHandleUnderRace ==
    /\ Len(handles) <= 1
    /\ \A t \in Threads :
          (tpc[t] = "done" /\ tloc[t].used # Null) => tloc[t].used = sc.channel
    /\ (\A t \in Threads : tpc[t] = "done") =>
          \A h \in 1..Len(handles) : handles[h].open => h = sc.channel

\* C7: used sequentially, a service client has no channel until the first
\* operation needs one; between construction (or the last close()) and the
\* next close() at most one channel is created, and every operation in that
\* interval goes through it.
C7_OneHandlePerInterval ==
    /\ lastOp.name = "__init__" => (handles = <<>> /\ sc.channel = Null)
    /\ \A h \in 1..Len(handles) : handles[h].open => h = sc.channel
    /\ (WasOp /\ lastOp.via # Null) => lastOp.via = sc.channel

\* The root object holds nothing: no channel, no constructed sub-client.
Uninitialized ==
    /\ sc.channel = Null
    /\ \A s \in Services : slots[s] = NoClient

\* C8: close() is idempotent on a service client and on the facade: a close()
\* right after a close(), or on an object that never opened a connection,
\* raises nothing, releases nothing and changes nothing; no channel is ever
\* closed twice.
C8_CloseIdempotent ==
    /\ [](\A h \in 1..Len(handles) : handles[h].closes <= 1)
    /\ []((lastOp.target = root /\ lastOp.name = "close"
               /\ (lastOp.again \/ handles = <<>>)) =>
             (lastOp.raised = "None" /\ lastOp.released = {} /\ Uninitialized))
    /\ [][(lastOp'.target = root /\ lastOp'.name = "close" /\ lastOp'.again) =>
             (sc' = sc /\ slots' = slots /\ handles' = handles)]_vars

C8_Witness ==
    /\ lastOp.target = root /\ lastOp.name = "close" /\ lastOp.again
    /\ lastOp.released = {}
    /\ \E h \in 1..Len(handles) : handles[h].closes = 1

\* C9: when a scoped-use block around a service client or the facade is left,
\* normally or by an exception, every channel a client created inside it is
\* closed and the object holds no channel and no sub-client.
C9_ScopedRelease ==
    (lastOp.target = root /\ lastOp.name = "__exit__") =>
        /\ \A h \in 1..Len(handles) :
              (handles[h].scoped /\ handles[h].owner # Null) => ~handles[h].open
        /\ Uninitialized

\* The endpoint the configuration holds for each facade property.
EndpointOf ==
    [observe |-> DelosConfig.observe, runtime  |-> DelosConfig.runtime,
     prompts |-> DelosConfig.prompt,  datasets |-> DelosConfig.datasets,
     eval    |-> DelosConfig.eval,    deploy   |-> DelosConfig.deploy]

Closing == lastOp'.target = "facade" /\ lastOp'.name \in {"close", "__exit__"}

\* C10: each facade sub-client is constructed on first access of its property,
\* from that service's configured endpoint and the configured timeout; until
\* close() the slot keeps that instance; a property access touches no other
\* slot.
C10_LazySubClients ==
    /\ [](lastOp.name = "__init__" => \A s \in Services : slots[s] = NoClient)
    /\ [](\A s \in Services : slots[s].inst # Null =>
             /\ slots[s].svc = s
             /\ slots[s].endpoint = EndpointOf[s]
             /\ slots[s].timeout = DelosConfig.timeout)
    /\ [][\A s \in Services :
             (slots[s].inst # Null /\ ~Closing) => slots'[s].inst = slots[s].inst]_vars
    /\ [][~Closing =>
             \A s, t \in Services :
                (slots'[s] # slots[s] /\ slots'[t] # slots[t]) => s = t]_vars
    /\ [][\A s \in Services :
             (slots[s].inst = Null /\ slots'[s].inst # Null) =>
                (slots'[s].inst = nInst + 1 /\ nInst' = nInst + 1)]_vars

C10_Witness ==
    /\ lastOp.name = "property"
    /\ \E s, t \in Services :
          s # t /\ slots[s].inst # Null /\ slots[t].inst # Null

\* C11: after DelosClient.close() all six slots are uninitialized and every
\* channel a sub-client of the facade created is closed; the next access of a
\* property constructs a client that never existed before, with no channel
\* and no stub of the closed one.
C11_FacadeCloseResetsAll ==
    /\ []((lastOp.target = "facade" /\ lastOp.name = "close") =>
             /\ \A s \in Services : slots[s] = NoClient
             /\ \A h \in 1..Len(handles) :
                   handles[h].owner # Null => ~handles[h].open)
    /\ [][(lastOp.target = "facade" /\ lastOp.name = "close") =>
             \A s \in Services :
                slots'[s].inst # Null =>
                   /\ slots'[s].inst > nInst
                   /\ slots'[s].channel \in {Null} \cup (Len(handles) + 1..Len(handles'))
                   /\ slots'[s].stub \in {Null} \cup (Len(handles) + 1..Len(handles'))]_vars

\* The channels health_check has created, and those of them still open.
HealthChannels == {h \in 1..Len(handles) : handles[h].owner = Null}

HealthOpen == {h \in HealthChannels : handles[h].open}

Returned == out.name = "health_check" /\ out.pc = "returned"

Sentinel(e) == IF e = "SpanStatus" THEN "unset" ELSE "unspecified"

\* C13: for each of the six enum mapper pairs, every declared domain value is
\* a key of the encode table, no two declared values encode to the same wire
\* value, and decoding the encoded value gives the value back.
C13_EnumRoundTrip ==
    /\ inp.name = "enum" => inp.value \in DOMAIN ToPbMapping(inp.enum)
    /\ (inp.name = "enum" /\ out.name = "to_pb") =>
          \A u \in DomainValues(inp.enum) \ {inp.value} :
             ToPb(inp.enum, u) # out.wire
    /\ (inp.name = "enum" /\ out.name = "from_pb") => out.value = inp.value

C13_Witness ==
    /\ inp.name = "enum" /\ out.name = "from_pb"
    /\ inp.enum = "DeploymentStatus" /\ inp.value = "gates_failed"
    /\ out.wire = 3

\* C14: a wire enum value that is not in the decode table decodes to
\* UNSPECIFIED (UNSET for SpanStatus) and raises nothing; a wire Span that
\* carries such a kind or status still decodes to a Span, with the sentinel
\* in that field.
C14_UnknownWireIsSentinel ==
    /\ (inp.name = "wire" /\ out.name = "from_pb"
           /\ inp.wire \notin DOMAIN FromPbMapping(inp.enum)) =>
          (out.raised = "None" /\ out.value = Sentinel(inp.enum))
    /\ (inp.name = "pb_span" /\ out.name = "span") =>
          /\ inp.pb.kind \notin DOMAIN Observe_kind_from_pb_mapping =>
                out.span.kind = "unspecified"
          /\ inp.pb.status \notin DOMAIN Observe_status_from_pb_mapping =>
                out.span.status = "unset"
          /\ out.span.kind \in SpanKind /\ out.span.status \in SpanStatus

C14_Witness ==
    /\ inp.name = "wire" /\ out.name = "from_pb"
    /\ inp.enum = "DeploymentStatus" /\ inp.wire = 9
    /\ out.value = "unspecified"

\* C15: a Span encoded by ingest_spans and decoded by _to_span is the Span
\* that went in: parent_span_id, status_message and end_time keep their
\* presence and value (the empty string included), kind and status are
\* unchanged.
C15_SpanRoundTrip ==
    (inp.name = "span" /\ out.name = "span") => out.span = inp.span

\* The non-empty fragments of a remote stream, in stream order.
NonEmptyContent(frags) == SelectSeq(frags, LAMBDA f : f # "")

IsPrefixOf(a, b) == Len(a) <= Len(b) /\ a = SubSeq(b, 1, Len(a))

\* C16: the iterator of complete_stream hands over the non-empty fragments of
\* the remote stream in stream order and no empty one; when the remote stream
\* closes it has handed over all of them and ends; an ended iterator yields
\* nothing more, only a new call starts over.
C16_StreamYieldsNonEmpty ==
    /\ [](out.name = "iterator" =>
             /\ IsPrefixOf(out.yielded, NonEmptyContent(inp.frags))
             /\ (out.state = "finished" /\ out.raised = "None") =>
                   (out.yielded = NonEmptyContent(inp.frags) /\ inp.ending = "ok")
             /\ (out.pos = Len(inp.frags) /\ out.state = "suspended") =>
                   inp.frags[out.pos] # "")
    /\ [][(out.name = "iterator" /\ out.state = "finished") =>
             \/ (out'.state = "finished" /\ out'.yielded = out.yielded
                    /\ out'.id = out.id /\ out'.last = "StopIteration")
             \/ (out'.id = out.id + 1 /\ out'.state = "created"
                    /\ out'.yielded = <<>>)]_vars

C16_Witness ==
    /\ out.name = "iterator" /\ out.state = "finished"
    /\ out.last = "StopIteration"
    /\ inp.frags = <<"", "y">>
    /\ out.yielded = <<"y">>
    /\ out.id = 2

\* C17: an operation that raises has delivered nothing to its caller: no
\* value, and for a streaming completion no fragment, neither in the next()
\* that raises nor in one before it (a generator is suspended only at its
\* yield, having handed over a fragment).
C17_NoPartialSuccess ==
    [][(lastOp'.target = "service" /\ lastOp'.raised # "None"
          /\ lastOp'.name \in Operations(sc.svc) \cup {"iterate"}) =>
            /\ lastOp'.value = NoValue
            /\ lastOp'.delivered = <<>>
            /\ \A i \in 1..Len(gens) :
                  (lastOp'.name = "iterate" /\ gens' = RemoveAt(gens, i)) =>
                     gens[i].state # "suspended"]_vars

CallOk == inp.name = "call" /\ out.name = "result" /\ out.raised = "None"

\* C18: what a Create/Update operation returns is the conversion of the
\* response alone: every field is the response's, and the same response
\* gives the same object whatever the arguments of the call were.
C18_CreateReturnsResponse ==
    (CallOk /\ inp.op \in CreateUpdateOps(sc.svc)) =>
        /\ out.value[1].id = inp.response.id
        /\ out.value[1].name = inp.response.name
        /\ out.value[1].text = inp.response.text
        /\ \A a \in CreateArgs :
              OpResult(sc.svc, inp.op, a, inp.response) = out.value[1]

C18_Witness ==
    /\ CallOk /\ inp.op \in CreateUpdateOps(sc.svc)
    /\ inp.args.key = "a" /\ inp.response.name = "b"
    /\ inp.args.text = "p" /\ inp.response.text = ""
    /\ out.value[1].name = "b"

\* C19: a List operation with limit L and offset O sends one request, which
\* carries L and O; it returns the response's items converted, in response
\* order, at most L of them, with the size of the backing collection as
\* total_count, and sends nothing else.
C19_ListOnePage ==
    (inp.name = "call" /\ out.name = "result" /\ inp.op \in ListOps(sc.svc)
        /\ sc.svc \notin genMissing) =>
        /\ Len(out.sent) = 1
        /\ out.sent[1].limit = inp.args.limit
        /\ out.sent[1].offset = inp.args.offset
        /\ out.raised = "None" =>
              LET page == out.value[1]
              IN  /\ Len(page.items) <= inp.args.limit
                  /\ page.total_count = inp.total
                  /\ \A i \in 1..Len(page.items) :
                        page.items[i].id = inp.args.offset + i
                  /\ Len(page.items) =
                        IF inp.total - inp.args.offset < 0 THEN 0
                        ELSE IF inp.total - inp.args.offset < inp.args.limit
                             THEN inp.total - inp.args.offset
                             ELSE inp.args.limit

C19_Witness ==
    /\ CallOk /\ inp.op \in ListOps(sc.svc)
    /\ inp.args.limit = 1 /\ inp.args.offset = 2 /\ inp.total = 3
    /\ Len(out.value[1].items) = 1
    /\ out.value[1].total_count = 3

\* The version render selects, and the value supplied for a name.
SelectedVersion ==
    IF inp.version = None \/ inp.version[1] = 0
    THEN inp.prompt.current_version ELSE inp.version[1]

Supplied ==
    IF inp.variables = None THEN {}
    ELSE {inp.variables[1][i][1] : i \in 1..Len(inp.variables[1])}

ValueOf(n) ==
    LET i == CHOOSE j \in 1..Len(inp.variables[1]) : inp.variables[1][j][1] = n
    IN  inp.variables[1][i][2]

\* A template with each placeholder of a supplied name replaced by that
\* name's value, and every other piece kept.
RECURSIVE Substituted(_)
Substituted(t) ==
    IF t = <<>> THEN <<>>
    ELSE LET hit == {n \in Supplied : Head(t) = Placeholder(n)}
         IN  (IF hit # {} THEN ValueOf(CHOOSE n \in hit : TRUE) ELSE <<Head(t)>>)
             \o Substituted(Tail(t))

\* C20: render returns the selected version's template with every {{name}}
\* of a supplied name replaced by the supplied value and every other
\* placeholder verbatim; with variables None or empty, the template verbatim.
C20_RenderSubstitutes ==
    (out.name = "render" /\ out.raised = "None") =>
        out.value[1] =
            Substituted(inp.prompt.versions[SelectedVersion].template)

\* C21: is_active holds exactly for pending_approval, pending_gates and
\* in_progress; is_complete exactly for completed, rolled_back, cancelled,
\* failed and gates_failed; never both; neither exactly for UNSPECIFIED.
C21_ActiveCompletePartition ==
    out.name = "deployment" =>
        /\ out.is_active <=>
              inp.obj.status \in {"pending_approval", "pending_gates", "in_progress"}
        /\ out.is_complete <=>
              inp.obj.status \in {"completed", "rolled_back", "cancelled",
                                  "failed", "gates_failed"}
        /\ ~(out.is_active /\ out.is_complete)
        /\ (~out.is_active /\ ~out.is_complete) <=> inp.obj.status = "unspecified"

C21_Witness ==
    /\ out.name = "deployment"
    /\ inp.obj.status = "gates_failed"
    /\ out.is_complete /\ ~out.is_active

\* C22: progress raises nothing; it is 0 when total_examples is 0, whatever
\* completed_examples is, and completed_examples / total_examples * 100
\* otherwise (1 of 4 gives 25).
C22_ProgressGuarded ==
    out.name = "progress" =>
        /\ out.raised = "None"
        /\ inp.obj.total_examples = 0 => out.value.num = 0
        /\ inp.obj.total_examples # 0 =>
              out.value.num * inp.obj.total_examples
                 = inp.obj.completed_examples * 100 * out.value.den
        /\ (inp.obj.total_examples = 4 /\ inp.obj.completed_examples = 1) =>
              out.value.num = 25 * out.value.den

C22_Witness ==
    /\ out.name = "progress"
    /\ inp.obj.total_examples = 0 /\ inp.obj.completed_examples = 3
    /\ out.value.num = 0

\* C23: has_more is true exactly when offset + len(items) < total_count; an
\* empty page at or past the end has no more.
C23_HasMore ==
    out.name = "has_more" =>
        /\ out.value <=>
              inp.obj.offset + Len(inp.obj.items) < inp.obj.total_count
        /\ (inp.obj.items = <<>> /\ inp.obj.offset >= inp.obj.total_count) =>
              ~out.value

C23_Witness ==
    /\ out.name = "has_more"
    /\ inp.obj.offset = 1 /\ Len(inp.obj.items) = 2 /\ inp.obj.total_count = 3
    /\ ~out.value

\* C24: Trace.duration_ms is None whenever start_time or end_time is missing
\* and nothing is raised then; with both present and comparable it is
\* end_time - start_time in milliseconds (T and T + 1500 ms give 1500).
\* Span.duration_ms is None exactly when end_time is missing.
C24_DurationMs ==
    /\ out.name = "trace_duration" =>
          LET st == inp.obj.start_time
              en == inp.obj.end_time
          IN  /\ (st = None \/ en = None) =>
                    (out.value = None /\ out.raised = "None")
              /\ (st # None /\ en # None /\ st[1].aware = en[1].aware) =>
                    /\ out.raised = "None"
                    /\ out.value # None
                    /\ out.value[1].num = (en[1].at - st[1].at) * out.value[1].den
                    /\ en[1].at = st[1].at + 1500 =>
                          out.value[1].num = 1500 * out.value[1].den
    /\ (out.name = "span_duration" /\ out.raised = "None") =>
          (out.value = None <=> inp.obj.end_time = None)
    /\ (out.name = "span_duration" /\ inp.obj.end_time = None) =>
          out.raised = "None"

C24_Witness ==
    /\ out.name = "trace_duration"
    /\ inp.obj.start_time # None /\ inp.obj.end_time # None
    /\ inp.obj.start_time[1].at = 0 /\ inp.obj.end_time[1].at = 1500
    /\ out.value # None /\ out.value[1].num = 1500 * out.value[1].den

\* The parentless spans of a list, by position.
Parentless(spans) == {i \in 1..Len(spans) : spans[i].parent_span_id = None}

\* C25: root_span is the span at the lowest position among those whose
\* parent id is None, whatever else the list holds, and None when there is
\* no such span.
C25_RootSpanFirst ==
    out.name = "root_span" =>
        LET roots == Parentless(inp.obj.spans)
        IN  /\ roots = {} => out.value = None
            /\ roots # {} =>
                  \E i \in roots :
                      /\ \A j \in roots : i <= j
                      /\ out.value = Some(inp.obj.spans[i])

C25_Witness ==
    /\ out.name = "root_span"
    /\ Len(inp.obj.spans) = 3
    /\ Parentless(inp.obj.spans) = {2, 3}
    /\ inp.obj.spans[2] # inp.obj.spans[3]
    /\ out.value = Some(inp.obj.spans[2])

\* C26 as stated: every field of a service client but the connection handle,
\* the cached stub included, keeps the value construction gave it.
C26_OnlyHandleChanges ==
    /\ sc.endpoint = ConfigEndpoint(sc.svc)
    /\ sc.timeout = DelosConfig.timeout
    /\ sc.stub = Null

\* C26, amended: no operation changes the endpoint, the timeout or the
\* identity of a service client. Besides the connection handle one field
\* changes after construction, the cached stub: a stub access or a remote
\* call creates it when the field holds none, and no operation replaces a
\* stub the field holds by another one.
C26_FrameExceptStub ==
    [][/\ sc'.inst = sc.inst /\ sc'.svc = sc.svc
       /\ sc'.endpoint = sc.endpoint /\ sc'.timeout = sc.timeout
       /\ (sc.stub # Null /\ sc'.stub # Null) => sc'.stub = sc.stub
       /\ (sc.stub = Null /\ sc'.stub # Null) =>
             lastOp'.name \in Operations(sc.svc) \cup {"iterate", "stub"}]_vars

C26_Witness ==
    /\ lastOp.name = "close" /\ lastOp.released # {}
    /\ sc.stub # Null /\ sc.channel = Null
    /\ sc.endpoint = ConfigEndpoint(sc.svc) /\ sc.timeout = DelosConfig.timeout

\* C27: an access to the channel of a client with no channel and a TLS
\* endpoint, in which building the credentials fails, raises that failure
\* after one attempt and leaves the client and the channels as they were;
\* the access after it builds the credentials again, and when that works the
\* client holds a new open secure channel.
C27_TlsFailurePropagates ==
    /\ [][(lastOp'.name = "channel" /\ sc.channel = Null /\ sc.endpoint.use_tls
             /\ lastOp'.outcome = "error") =>
               /\ lastOp'.raised # "None"
               /\ lastOp'.calls = 1
               /\ sc' = sc /\ sc'.channel = Null
               /\ handles' = handles]_vars
    /\ [][(lastOp'.name = "channel" /\ lastOp'.again) =>
               /\ lastOp'.calls = 1
               /\ lastOp'.outcome = "ok" =>
                     /\ lastOp'.raised = "None"
                     /\ Len(handles') = Len(handles) + 1
                     /\ sc'.channel = Len(handles')
                     /\ handles'[sc'.channel].open
                     /\ handles'[sc'.channel].secure]_vars

C27_Witness ==
    /\ lastOp.name = "channel" /\ lastOp.again
    /\ lastOp.raised = "None" /\ lastOp.calls = 1
    /\ sc.endpoint.use_tls
    /\ sc.channel # Null /\ handles[sc.channel].secure

\* The position of a service in the fixed slot order.
SlotIndex(svc) == CHOOSE i \in 1..Len(SlotOrder) : SlotOrder[i] = svc

\* C28: when close() of the facade reaches a constructed sub-client whose
\* channel fails to close, close() raises that failure; the slots before it
\* in the order observe, runtime, prompts, datasets, eval, deploy are reset
\* and their channels closed; that slot and every later slot keep their
\* sub-client, with its channel as it was.
C28_CloseStopsAtFailure ==
    [][(lastOp'.name = "close" /\ lastOp'.via # Null) =>
         \A svc \in Services :
            (slots[svc].inst # Null /\ slots[svc].channel = lastOp'.via) =>
               /\ lastOp'.raised # "None"
               /\ \A before \in Services :
                     SlotIndex(before) < SlotIndex(svc) =>
                        /\ slots'[before] = NoClient
                        /\ slots[before].channel # Null =>
                              ~handles'[slots[before].channel].open
               /\ \A later \in Services :
                     SlotIndex(later) >= SlotIndex(svc) =>
                        /\ slots'[later] = slots[later]
                        /\ slots[later].channel # Null =>
                              handles'[slots[later].channel]
                                 = handles[slots[later].channel]]_vars

C28_Witness ==
    /\ lastOp.name = "close" /\ lastOp.raised # "None"
    /\ slots["observe"] = NoClient
    /\ lastOp.released # {}
    /\ slots["runtime"].channel = lastOp.via
    /\ handles[lastOp.via].open

\* C29: on a service client whose generated code is missing, no remote
\* operation, no consumption of a stream generator and no stub access makes
\* a remote invocation or changes the client or the channels; each of them
\* raises, except the call of complete_stream, which only returns its
\* generator. So no stub is ever cached and a channel can only come from
\* reading the channel accessor itself; close() on a client without a
\* channel releases nothing. Starting from construction, no sequence of
\* operations, stub accesses and close() creates a channel.
C29_MissingCodeNoHandle ==
    /\ [](sc.svc \in genMissing => sc.stub = Null)
    /\ [][(sc.svc \in genMissing /\ lastOp'.name \notin {"channel", "close"}) =>
             /\ lastOp'.name \notin StreamOps(sc.svc) => lastOp'.raised # "None"
             /\ lastOp'.calls = 0
             /\ sc' = sc
             /\ handles' = handles]_vars
    /\ [][(sc.svc \in genMissing /\ lastOp'.name = "close" /\ sc.channel = Null) =>
             /\ lastOp'.released = {}
             /\ sc' = sc
             /\ handles' = handles]_vars

C29_Witness ==
    /\ sc.svc \in genMissing
    /\ lastOp.name = "stub" /\ lastOp.raised = "ImportError"
    /\ sc.channel = Null /\ sc.stub = Null /\ handles = <<>>

\* The same name/value pairs in the opposite iteration order.
Reversed(items) == [i \in 1..Len(items) |-> items[Len(items) + 1 - i]]

\* C30: text that enters the output through a value is not substituted
\* again, so render returns the same text whatever order the variables
\* mapping is iterated in.
C30_RenderOrderIndependent ==
    (out.name = "render" /\ out.raised = "None" /\ inp.variables # None) =>
        out = Prompt_render(inp.prompt, Some(Reversed(inp.variables[1])),
                            inp.version)
====
